---- MODULE Spec2Model ----
(***************************************************************************)
(* A model of the F1 Strategist server: the retrieval pipeline and the     *)
(* document processing of server/rag.ts (hybridRetrieval, enhanceQuery,    *)
(* generateEmbedding, bm25Search, extractKeywords, generateResponse,       *)
(* chunkDocument, processDocument, initializeEmbeddings), the storage of   *)
(* server/storage.ts (MemStorage) and the routes and the startup timer of  *)
(* server/routes.ts that call them.                                        *)
(*                                                                         *)
(* Text is a sequence of one-character strings.  Scores are fixed-point    *)
(* numbers in thousandths (SCALE = 1.0); a division rounds down where the  *)
(* program computes in floating point.                                     *)
(***************************************************************************)
EXTENDS Integers, Sequences, FiniteSets, TLC

(***************************************************************************)
(* Text helpers: String.prototype.toLowerCase, includes, split(/\s+/),     *)
(* Array.prototype.slice.                                                  *)
(***************************************************************************)
UpperChars == <<"A","B","C","D","E","F","G","H","I","J","K","L","M",
                "N","O","P","Q","R","S","T","U","V","W","X","Y","Z">>

LowerChars == <<"a","b","c","d","e","f","g","h","i","j","k","l","m",
                "n","o","p","q","r","s","t","u","v","w","x","y","z">>

UpperSet == {UpperChars[i] : i \in 1..Len(UpperChars)}

toLowerCaseChar(c) ==
  IF c \in UpperSet
  THEN LowerChars[CHOOSE i \in 1..Len(UpperChars) : UpperChars[i] = c]
  ELSE c

\* The characters i..j of s in lower case, by halves.
RECURSIVE lowerFrom(_, _, _)
lowerFrom(s, i, j) ==
  IF i > j THEN <<>>
  ELSE IF i = j THEN <<toLowerCaseChar(s[i])>>
  ELSE LET mid == (i + j) \div 2
       IN  lowerFrom(s, i, mid) \o lowerFrom(s, mid + 1, j)

toLowerCase(s) == lowerFrom(s, 1, Len(s))

\* s.includes(t): t occurs in s as a contiguous run (the empty t always does).
includes(s, t) ==
  \E p \in 0..(Len(s) - Len(t)) : \A j \in 1..Len(t) : s[p + j] = t[j]

isSpace(c) == c \in {" ", "\n", "\t"}

\* s.split(/\s+/): the maximal runs between whitespace runs; a leading or
\* trailing whitespace run yields an empty first or last piece, as in JS.
RECURSIVE splitFrom(_, _, _)
splitFrom(s, i, cur) ==
  IF i > Len(s) THEN <<cur>>
  ELSE IF isSpace(s[i])
       THEN IF i > 1 /\ isSpace(s[i - 1])
            THEN splitFrom(s, i + 1, cur)
            ELSE <<cur>> \o splitFrom(s, i + 1, <<>>)
       ELSE splitFrom(s, i + 1, Append(cur, s[i]))

splitWhitespace(s) == splitFrom(s, 1, <<>>)

\* Array.prototype.slice(0, end) (and String.prototype.slice(0, end)): a
\* negative end counts from the back, an end past the length is the length.
slice0(a, end) ==
  LET e == IF end < 0 THEN (IF Len(a) + end < 0 THEN 0 ELSE Len(a) + end)
           ELSE (IF end > Len(a) THEN Len(a) ELSE end)
  IN  SubSeq(a, 1, e)

(***************************************************************************)
(* extractKeywords (rag.ts 113-150): the two vocabularies, matched against *)
(* the lower-cased text, jargon before entities, the first 10 kept.        *)
(***************************************************************************)
f1Terms ==
  << <<"p","i","t"," ","s","t","o","p">>,
     <<"t","i","r","e">>,
     <<"s","t","r","a","t","e","g","y">>,
     <<"D","R","S">>,
     <<"o","v","e","r","t","a","k","e">>,
     <<"q","u","a","l","i","f","y","i","n","g">>,
     <<"p","o","l","e"," ","p","o","s","i","t","i","o","n">>,
     <<"f","a","s","t","e","s","t"," ","l","a","p">>,
     <<"s","a","f","e","t","y"," ","c","a","r">>,
     <<"V","S","C">>,
     <<"r","e","d"," ","f","l","a","g">>,
     <<"u","n","d","e","r","c","u","t">>,
     <<"o","v","e","r","c","u","t">>,
     <<"m","e","d","i","u","m">>,
     <<"s","o","f","t">>,
     <<"h","a","r","d">>,
     <<"i","n","t","e","r","m","e","d","i","a","t","e">>,
     <<"w","e","t">>,
     <<"s","l","i","c","k">>,
     <<"d","e","g","r","a","d","a","t","i","o","n">>,
     <<"g","r","a","i","n","i","n","g">>,
     <<"b","l","i","s","t","e","r","i","n","g">>,
     <<"d","o","w","n","f","o","r","c","e">>,
     <<"d","r","a","g">>,
     <<"a","e","r","o">>,
     <<"E","R","S">>,
     <<"b","a","t","t","e","r","y">>,
     <<"d","e","p","l","o","y","m","e","n","t">>,
     <<"s","e","c","t","o","r">>,
     <<"l","a","p"," ","t","i","m","e">>,
     <<"g","a","p">>,
     <<"d","e","l","t","a">>,
     <<"p","a","c","e">>,
     <<"s","t","i","n","t">> >>

entities ==
  << <<"v","e","r","s","t","a","p","p","e","n">>,
     <<"h","a","m","i","l","t","o","n">>,
     <<"l","e","c","l","e","r","c">>,
     <<"n","o","r","r","i","s">>,
     <<"s","a","i","n","z">>,
     <<"r","u","s","s","e","l","l">>,
     <<"p","e","r","e","z">>,
     <<"a","l","o","n","s","o">>,
     <<"s","t","r","o","l","l">>,
     <<"g","a","s","l","y">>,
     <<"o","c","o","n">>,
     <<"t","s","u","n","o","d","a">>,
     <<"r","e","d"," ","b","u","l","l">>,
     <<"f","e","r","r","a","r","i">>,
     <<"m","e","r","c","e","d","e","s">>,
     <<"m","c","l","a","r","e","n">>,
     <<"a","s","t","o","n"," ","m","a","r","t","i","n">>,
     <<"a","l","p","i","n","e">>,
     <<"w","i","l","l","i","a","m","s">>,
     <<"h","a","a","s">>,
     <<"a","l","f","a"," ","r","o","m","e","o">>,
     <<"a","l","p","h","a","t","a","u","r","i">>,
     <<"m","o","n","a","c","o">>,
     <<"s","i","l","v","e","r","s","t","o","n","e">>,
     <<"m","o","n","z","a">>,
     <<"s","p","a">>,
     <<"s","u","z","u","k","a">>,
     <<"i","n","t","e","r","l","a","g","o","s">> >>

\* The terms of vocab from the i-th on that lowered, the text in lower case
\* (text.toLowerCase(), rag.ts 129 and 144), includes.  letters are the
\* characters of lowered: a term with a character the text lacks is not in it.
RECURSIVE matchedTerms(_, _, _, _)
matchedTerms(lowered, letters, vocab, i) ==
  IF i > Len(vocab) THEN <<>>
  ELSE (IF (\A j \in 1..Len(vocab[i]) : vocab[i][j] \in letters)
            /\ includes(lowered, vocab[i])
        THEN <<vocab[i]>> ELSE <<>>)
       \o matchedTerms(lowered, letters, vocab, i + 1)

\* A Set keeps the first insertion of a value; no term is in both lists.
extractKeywords(text) ==
  LET lowered == toLowerCase(text)
      letters == {lowered[i] : i \in 1..Len(lowered)}
  IN  slice0(matchedTerms(lowered, letters, f1Terms, 1)
             \o matchedTerms(lowered, letters, entities, 1), 10)

(***************************************************************************)
(* new RegExp(term, "gi") and String.prototype.match (rag.ts 236).  The    *)
(* model covers the patterns that terms over letters, digits, ".", "?" and *)
(* "(" spell: a literal, "." (any character but a line break), x? and x??  *)
(* (optional, greedy and lazy).  A "(" opens a group that nothing closes   *)
(* and a "?" with nothing to repeat is an error: the constructor throws.   *)
(***************************************************************************)
RECURSIVE regExpParse(_, _)
regExpParse(term, i) ==
  IF i > Len(term) THEN [ok |-> TRUE, atoms |-> <<>>]
  ELSE IF term[i] \in {"(", "?"} THEN [ok |-> FALSE, atoms |-> <<>>]
  ELSE LET opt  == i + 1 <= Len(term) /\ term[i + 1] = "?"
           lazy == opt /\ i + 2 <= Len(term) /\ term[i + 2] = "?"
           rest == regExpParse(term, i + (IF lazy THEN 3 ELSE IF opt THEN 2 ELSE 1))
           atom == [ch |-> term[i], any |-> term[i] = ".", opt |-> opt, lazy |-> lazy]
       IN  [ok |-> rest.ok, atoms |-> <<atom>> \o rest.atoms]

regExpThrows(term) == ~regExpParse(term, 1).ok

\* The length of the match of atoms k.. at position pos of text, -1 if none.
RECURSIVE matchLen(_, _, _, _)
matchLen(text, pos, atoms, k) ==
  IF k > Len(atoms) THEN 0
  ELSE LET a    == atoms[k]
           hit  == pos <= Len(text)
                   /\ (IF a.any THEN text[pos] # "\n" ELSE text[pos] = a.ch)
           take == IF hit
                   THEN LET r == matchLen(text, pos + 1, atoms, k + 1)
                        IN  IF r < 0 THEN -1 ELSE r + 1
                   ELSE -1
           skip == matchLen(text, pos, atoms, k + 1)
       IN  IF ~a.opt THEN take
           ELSE IF a.lazy THEN (IF skip >= 0 THEN skip ELSE take)
           ELSE (IF take >= 0 THEN take ELSE skip)

\* The number of matches a global search finds from pos on: after a match the
\* search resumes behind it, one further on after an empty match.
RECURSIVE countMatches(_, _, _)
countMatches(text, atoms, pos) ==
  IF pos > Len(text) + 1 THEN 0
  ELSE LET l == matchLen(text, pos, atoms, 1)
       IN  IF l < 0 THEN countMatches(text, atoms, pos + 1)
           ELSE 1 + countMatches(text, atoms, pos + (IF l = 0 THEN 1 ELSE l))

matchCount(content, term) == countMatches(content, regExpParse(term, 1).atoms, 1)

(***************************************************************************)
(* bm25Search (rag.ts 211-247).                                            *)
(***************************************************************************)
SCALE == 1000

\* BM25 parameters k1 = 1.2 (in tenths) and b = 0.75 (in hundredths).
k1 == 12

b == 75

\* Math.log on the integers 1..16, in thousandths.
LnMilli == <<0, 693, 1099, 1386, 1609, 1792, 1946, 2079,
             2197, 2303, 2398, 2485, 2565, 2639, 2708, 2773>>

RECURSIVE SumLen(_, _)
SumLen(chunkSeq, i) ==
  IF i > Len(chunkSeq) THEN 0 ELSE Len(chunkSeq[i].content) + SumLen(chunkSeq, i + 1)

queryTermsOf(query) ==
  SelectSeq(splitWhitespace(toLowerCase(query)), LAMBDA t : Len(t) > 2)

\* df and idf = ln((N - df + 0.5) / (df + 0.5) + 1) = ln((2N + 2) / (2df + 1)).
\* lowered is the chunks' lower-cased contents.
docFreq(term, lowered) ==
  Cardinality({i \in 1..Len(lowered) : includes(lowered[i], term)})

RECURSIVE idfOf(_, _, _)
idfOf(terms, lowered, i) ==
  IF i > Len(terms) THEN <<>>
  ELSE <<LnMilli[2 * Len(lowered) + 2] - LnMilli[2 * docFreq(terms[i], lowered) + 1]>>
       \o idfOf(terms, lowered, i + 1)

\* idf * (tf (k1 + 1)) / (tf + k1 (1 - b + b dl / avgDL)), avgDL = sum / N:
\* numerator and denominator are multiplied by 10 sum.
\* sum is the total length of the contents and n their number.
termScore(term, idfValue, content, sum, n) ==
  LET tf  == matchCount(content, term)
      dl  == Len(content)
      num == tf * (k1 + 10) * sum
      den == (1000 * tf * sum + k1 * ((100 - b) * sum + b * dl * n)) \div 100
  IN  (idfValue * num) \div den

RECURSIVE chunkScore(_, _, _, _, _, _)
chunkScore(terms, idf, i, content, sum, n) ==
  IF i > Len(terms) THEN 0
  ELSE termScore(terms[i], idf[i], content, sum, n)
       + chunkScore(terms, idf, i + 1, content, sum, n)

RECURSIVE loweredContents(_, _)
loweredContents(chunkSeq, i) ==
  IF i > Len(chunkSeq) THEN <<>>
  ELSE <<toLowerCase(chunkSeq[i].content)>> \o loweredContents(chunkSeq, i + 1)

RECURSIVE rawScores(_, _, _, _, _)
rawScores(terms, idf, lowered, sum, i) ==
  IF i > Len(lowered) THEN <<>>
  ELSE <<chunkScore(terms, idf, 1, lowered[i], sum, Len(lowered))>>
       \o rawScores(terms, idf, lowered, sum, i + 1)

\* The result: threw (the RegExp constructor raised), or the score map, which
\* holds the chunks of positive score only.
bm25Search(query, chunkSeq) ==
  LET terms   == queryTermsOf(query)
      lowered == loweredContents(chunkSeq, 1)
      raw     == rawScores(terms, idfOf(terms, lowered, 1), lowered, SumLen(chunkSeq, 1), 1)
      keys  == {chunkSeq[i].id : i \in {j \in 1..Len(chunkSeq) : raw[j] > 0}}
  IN  IF \E i \in 1..Len(terms) : regExpThrows(terms[i])
      THEN [threw |-> TRUE, scores |-> <<>>]
      ELSE [threw |-> FALSE,
            scores |-> [id \in keys |->
                          raw[CHOOSE i \in 1..Len(chunkSeq) : chunkSeq[i].id = id]]]

(***************************************************************************)
(* MemStorage.cosineSimilarity and searchChunksByEmbedding (storage.ts     *)
(* 190-234).  An embedding is a sequence of integers; null and [] are both *)
(* <<>>, which every reader of the field treats alike.                     *)
(***************************************************************************)
Max2(x, y) == IF x >= y THEN x ELSE y

Min2(x, y) == IF x <= y THEN x ELSE y

\* x / y rounded toward zero (y > 0).
quot(x, y) == IF x >= 0 THEN x \div y ELSE -((-x) \div y)

RECURSIVE isqrtIn(_, _, _)
isqrtIn(n, lo, hi) ==
  IF lo >= hi THEN lo
  ELSE LET mid == (lo + hi + 1) \div 2
       IN  IF mid * mid <= n THEN isqrtIn(n, mid, hi) ELSE isqrtIn(n, lo, mid - 1)

\* Math.sqrt(n) in thousandths, for the norms of the model's vectors (n <= 16).
sqrtMilli(n) == isqrtIn(n * 1000000, 0, 4000)

RECURSIVE dotFrom(_, _, _)
dotFrom(x, y, i) == IF i > Len(x) THEN 0 ELSE x[i] * y[i] + dotFrom(x, y, i + 1)

\* The dot product divided by the squared norm of x alone.
cosineSimilarity_projection(x, y) ==
  IF Len(x) # Len(y) \/ Len(x) = 0 THEN 0
  ELSE IF dotFrom(x, x, 1) = 0 THEN 0
  ELSE quot(dotFrom(x, y, 1) * 1000, dotFrom(x, x, 1))

cosineSimilarity(x, y) ==
  IF Len(x) # Len(y) \/ Len(x) = 0 THEN 0
  ELSE LET denominator == (sqrtMilli(dotFrom(x, x, 1)) * sqrtMilli(dotFrom(y, y, 1))) \div 1000
       IN  IF denominator = 0 THEN 0
           ELSE quot(dotFrom(x, y, 1) * 1000000, denominator)

\* The insertion of a sort that is not stable: an element goes before those
\* already placed that score the same.
RECURSIVE insertDesc_beforeEqual(_, _, _)
insertDesc_beforeEqual(sorted, x, i) ==
  IF i > Len(sorted) THEN Append(sorted, x)
  ELSE IF sorted[i].combinedScore <= x.combinedScore
       THEN SubSeq(sorted, 1, i - 1) \o <<x>> \o SubSeq(sorted, i, Len(sorted))
       ELSE insertDesc_beforeEqual(sorted, x, i + 1)

\* Array.prototype.sort((a, b) => b.combinedScore - a.combinedScore): stable,
\* descending.  An element goes behind those already placed that score at
\* least as much.
RECURSIVE insertDesc(_, _, _)
insertDesc(sorted, x, i) ==
  IF i > Len(sorted) THEN Append(sorted, x)
  ELSE IF sorted[i].combinedScore < x.combinedScore
       THEN SubSeq(sorted, 1, i - 1) \o <<x>> \o SubSeq(sorted, i, Len(sorted))
       ELSE insertDesc(sorted, x, i + 1)

RECURSIVE sortDescFrom(_, _, _)
sortDescFrom(a, i, acc) ==
  IF i > Len(a) THEN acc ELSE sortDescFrom(a, i + 1, insertDesc(acc, a[i], 1))

sortByCombinedScore(a) == sortDescFrom(a, 1, <<>>)

hasEmbedding(c) == Len(c.embedding) > 0

\* storage.ts 198-212: the chunk as a RetrievedChunk scored by similarity.
scoredChunk(chunk, queryEmbedding) ==
  LET vectorScore == cosineSimilarity(queryEmbedding, chunk.embedding)
  IN  [id |-> chunk.id, content |-> chunk.content, documentId |-> chunk.documentId,
       metadata |-> chunk.metadata,
       vectorScore |-> vectorScore, bm25Score |-> 0, combinedScore |-> vectorScore]

RECURSIVE scoredChunks(_, _, _)
scoredChunks(withEmb, queryEmbedding, i) ==
  IF i > Len(withEmb) THEN <<>>
  ELSE <<scoredChunk(withEmb[i], queryEmbedding)>>
       \o scoredChunks(withEmb, queryEmbedding, i + 1)

searchChunksByEmbedding(chunkSeq, queryEmbedding, topK) ==
  slice0(sortByCombinedScore(
           scoredChunks(SelectSeq(chunkSeq, hasEmbedding), queryEmbedding, 1)), topK)

(***************************************************************************)
(* hybridRetrieval, steps 3 to 7 (rag.ts 268-356), as functions of the     *)
(* corpus snapshot, the storage, the query embeddings and topK.            *)
(***************************************************************************)
mapGet(m, key) == IF key \in DOMAIN m THEN m[key] ELSE 0

mapSet(m, key, v) == [x \in DOMAIN m \cup {key} |-> IF x = key THEN v ELSE m[x]]

\* The merge without Math.max and without the "|| 0": the last score found
\* is kept as it is.
RECURSIVE mergeResults_unclamped(_, _, _)
mergeResults_unclamped(vectorScores, found, i) ==
  IF i > Len(found) THEN vectorScores
  ELSE mergeResults_unclamped(mapSet(vectorScores, found[i].id, found[i].vectorScore),
                              found, i + 1)

\* The merge that adds the scores a chunk received.
RECURSIVE mergeResults_summed(_, _, _)
mergeResults_summed(vectorScores, found, i) ==
  IF i > Len(found) THEN vectorScores
  ELSE mergeResults_summed(mapSet(vectorScores, found[i].id,
                                  mapGet(vectorScores, found[i].id)
                                    + found[i].vectorScore),
                           found, i + 1)

\* rag.ts 282-285: vectorScores.set(id, Math.max(vectorScores.get(id) || 0, score)).
RECURSIVE mergeResults(_, _, _)
mergeResults(vectorScores, found, i) ==
  IF i > Len(found) THEN vectorScores
  ELSE mergeResults(mapSet(vectorScores, found[i].id,
                           Max2(mapGet(vectorScores, found[i].id), found[i].vectorScore)),
                    found, i + 1)

\* rag.ts 280-286: one search per query embedding, with topK * 2.
RECURSIVE vectorSearch(_, _, _, _, _)
vectorSearch(vectorScores, queryEmbeddings, k, chunkSeq, topK) ==
  IF k > Len(queryEmbeddings) THEN vectorScores
  ELSE vectorSearch(
         mergeResults(vectorScores,
                      searchChunksByEmbedding(chunkSeq, queryEmbeddings[k], topK * 2), 1),
         queryEmbeddings, k + 1, chunkSeq, topK)

RECURSIVE maxOf(_, _)
maxOf(S, floor) ==
  IF S = {} THEN floor
  ELSE LET x == CHOOSE y \in S : TRUE IN Max2(x, maxOf(S \ {x}, floor))

\* Math.max(...scores.values(), 0.001): the floor 0.001 is 1 thousandth.
maxScore(m) == maxOf({m[key] : key \in DOMAIN m}, 1)

\* The vector weight without the switch of rag.ts 301: 0.6 in both modes.
vectorWeightOf_unswitched(vectorScores) == 6

\* The weights of rag.ts 300-302, in tenths.
vectorWeightOf(vectorScores) == IF DOMAIN vectorScores # {} THEN 6 ELSE 0

\* The keyword weight without the switch of rag.ts 302: 0.4 in both modes.
bm25WeightOf_unswitched(vectorScores) == 4

bm25WeightOf(vectorScores) == IF DOMAIN vectorScores # {} THEN 4 ELSE 10

\* rag.ts 330-339: 1.0 plus 0.1 per metadata keyword the lower-cased query
\* contains, in tenths.
boostOf(chunk, queryLower) ==
  10 + Cardinality({i \in 1..Len(chunk.metadata.keywords) :
                       includes(queryLower, chunk.metadata.keywords[i])})

\* The final score without Math.min: the boosted product as it is.
capScore_uncapped(x) == x

\* Math.min(scores.combined * boost, 1.0).
capScore(x) == Min2(x, SCALE)

\* rag.ts 306-350 for one chunk: the normalized scores, the weighted
\* combination and the boosted, capped final score.  combined is kept in
\* ten-thousandths for the test combined > 0.
scoreChunk(chunk, queryLower, vectorScores, bm25Scores, maxVectorScore, maxBM25Score) ==
  LET useVectorSearch == DOMAIN vectorScores # {}
      vectorScore == IF useVectorSearch
                     THEN (mapGet(vectorScores, chunk.id) * SCALE) \div maxVectorScore
                     ELSE 0
      bm25Score   == (mapGet(bm25Scores, chunk.id) * SCALE) \div maxBM25Score
      combined    == vectorWeightOf(vectorScores) * vectorScore
                     + bm25WeightOf(vectorScores) * bm25Score
  IN  [id |-> chunk.id, content |-> chunk.content, documentId |-> chunk.documentId,
       metadata |-> chunk.metadata,
       vectorScore |-> vectorScore, bm25Score |-> bm25Score,
       combined |-> combined,
       combinedScore |-> capScore((combined * boostOf(chunk, queryLower)) \div 100)]

toRetrieved(r) ==
  [id |-> r.id, content |-> r.content, documentId |-> r.documentId,
   metadata |-> r.metadata, vectorScore |-> r.vectorScore,
   bm25Score |-> r.bm25Score, combinedScore |-> r.combinedScore]

\* rag.ts 304-350: the candidates, in corpus order.
RECURSIVE scoredFrom(_, _, _, _, _, _, _)
scoredFrom(snapshot, i, queryLower, vectorScores, bm25Scores, maxVectorScore, maxBM25Score) ==
  IF i > Len(snapshot) THEN <<>>
  ELSE LET r == scoreChunk(snapshot[i], queryLower, vectorScores, bm25Scores,
                           maxVectorScore, maxBM25Score)
       IN  (IF r.combined > 0 THEN <<toRetrieved(r)>> ELSE <<>>)
           \o scoredFrom(snapshot, i + 1, queryLower, vectorScores, bm25Scores,
                         maxVectorScore, maxBM25Score)

rerankedResults(snapshot, query, vectorScores, bm25Scores) ==
  scoredFrom(snapshot, 1, toLowerCase(query), vectorScores, bm25Scores,
             maxScore(vectorScores), maxScore(bm25Scores))

\* rag.ts 353-355.
sortAndSlice(reranked, topK) == slice0(sortByCombinedScore(reranked), topK)

\* rag.ts 292-356: what hybridRetrieval does once the vector stage is over.
fuseAndRank(snapshot, query, topK, vectorScores) ==
  LET bm == bm25Search(query, snapshot)
  IN  IF bm.threw THEN [raised |-> TRUE, results |-> <<>>]
      ELSE [raised |-> FALSE,
            results |-> sortAndSlice(
                          rerankedResults(snapshot, query, vectorScores, bm.scores), topK)]

(***************************************************************************)
(* enhanceQuery (rag.ts 182-207).  The provider's reply is an error (the   *)
(* create call rejects) or a message content: text that is no JSON, the    *)
(* JSON null, or an object whose variations and queries are each absent,   *)
(* an array of strings, a string or a number.                              *)
(***************************************************************************)
absent == [t |-> "absent", v |-> <<>>, n |-> 0]

jsonArray(a) == [t |-> "array", v |-> a, n |-> 0]

jsonString(str) == [t |-> "string", v |-> str, n |-> 0]

jsonNumber(k) == [t |-> "number", v |-> <<>>, n |-> k]

\* JavaScript truthiness, for result.variations || result.queries || [].
truthy(val) ==
  \/ val.t = "array"
  \/ val.t = "string" /\ Len(val.v) > 0
  \/ val.t = "number" /\ val.n # 0

\* [...x.slice(0, 2)]: the first two elements of an array, the first two
\* characters of a string (each a string of its own); a number has no slice
\* and the call raises a TypeError.
\* [...x]: every element, every character; no slice.
spreadSlice2_whole(val) ==
  IF val.t = "array" THEN [threw |-> FALSE, items |-> val.v]
  ELSE IF val.t = "string"
       THEN [threw |-> FALSE, items |-> [i \in 1..Len(val.v) |-> <<val.v[i]>>]]
  ELSE [threw |-> TRUE, items |-> <<>>]

spreadSlice2(val) ==
  IF val.t = "array" THEN [threw |-> FALSE, items |-> slice0(val.v, 2)]
  ELSE IF val.t = "string"
       THEN [threw |-> FALSE,
             items |-> [i \in 1..Len(slice0(val.v, 2)) |-> <<val.v[i]>>]]
  ELSE [threw |-> TRUE, items |-> <<>>]

\* rag.ts 200-206 on a reply that is a message content.
parseVariations(query, content) ==
  IF content.kind # "object" THEN <<query>>
  ELSE LET variations == IF truthy(content.variations) THEN content.variations
                         ELSE IF truthy(content.queries) THEN content.queries
                         ELSE jsonArray(<<>>)
           sl == spreadSlice2(variations)
       IN  IF sl.threw THEN <<query>> ELSE <<query>> \o sl.items

\* enhanceQuery as hybridRetrieval sees it: the variants, or raised.
enhanceQuery(query, reply) ==
  IF reply.kind = "error" THEN [raised |-> TRUE, variants |-> <<>>]
  ELSE [raised |-> FALSE, variants |-> parseVariations(query, reply)]

\* rag.ts 260-266: the catch around enhanceQuery.
variationsFor(query, reply) ==
  LET e == enhanceQuery(query, reply)
  IN  IF e.raised THEN <<query>> ELSE e.variants


(***************************************************************************)
(* generateEmbedding (rag.ts 154-178): one invocation's state.             *)
(***************************************************************************)
maxRetries == 3

baseDelay == 1000

RATE_LIMIT == 429

newEmbeddingCall(text) ==
  [text |-> text, attempt |-> 0, delay |-> baseDelay,
   st |-> "inflight", status |-> 0, embedding |-> <<>>]

\* rag.ts 167: the error is retried.
\* The retry test without its bound on the attempt: every 429 is retried.
retried_anyAttempt(status, attempt) == status = RATE_LIMIT

\* The retry test without its test of the status: every error is retried.
retried_anyStatus(status, attempt) == attempt < maxRetries - 1

retried(status, attempt) == status = RATE_LIMIT /\ attempt < maxRetries - 1

\* The provider answered the pending call of invocation g (rag.ts 165-173):
\* the vector is returned, or the timer is set, or the error is thrown.
embeddingAnswered(g, out) ==
  IF out.kind = "ok"
  THEN [g EXCEPT !.st = "returned", !.embedding = out.embedding]
  ELSE IF retried(out.status, g.attempt)
       THEN [g EXCEPT !.st = "waiting", !.status = out.status]
       ELSE [g EXCEPT !.st = "raised", !.status = out.status]

\* The setTimeout of rag.ts 169 fired: the delay doubles, and the loop either
\* goes round (rag.ts 159), calling the provider again, or ends (rag.ts 177).
embeddingRetry(g) ==
  IF g.attempt + 1 < maxRetries
  THEN [g EXCEPT !.st = "inflight", !.delay = 2 * @, !.attempt = @ + 1]
  ELSE [g EXCEPT !.st = "raised", !.delay = 2 * @, !.attempt = @ + 1, !.status = 0]

\* What is left of an invocation that returned or raised: its promise, that
\* is the vector or the error.  The loop's locals are gone.
promiseOf(g) ==
  IF g.st \in {"returned", "raised"} THEN [g EXCEPT !.attempt = 0, !.delay = 0] ELSE g

(***************************************************************************)
(* chunkDocument (rag.ts 50-111): the content is split into sentences at   *)
(* the whitespace that follows ".", "!" or "?", and the sentences are      *)
(* gathered into chunks of about CHUNK_SIZE characters that overlap by     *)
(* CHUNK_OVERLAP.  A document is a record of its id and its content.       *)
(***************************************************************************)
CHUNK_SIZE == 500

CHUNK_OVERLAP == 100

isStop(c) == c \in {".", "!", "?"}

\* Where /(?<=[.!?])\s+/ matches: at whitespace that follows a stop.
separatorStarts(content) ==
  {i \in 2..Len(content) : isSpace(content[i]) /\ isStop(content[i - 1])}

\* The last position of the whitespace run that starts at i: \s+ is greedy.
separatorEnd(content, i) ==
  CHOOSE j \in i..Len(content) :
    /\ \A k \in i..j : isSpace(content[k])
    /\ j = Len(content) \/ ~isSpace(content[j + 1])

RECURSIVE sentencesFrom(_, _, _)
sentencesFrom(content, starts, from) ==
  LET later == {i \in starts : i >= from}
  IN  IF later = {} THEN <<SubSeq(content, from, Len(content))>>
      ELSE LET i == CHOOSE x \in later : \A y \in later : x <= y
           IN  <<SubSeq(content, from, i - 1)>>
               \o sentencesFrom(content, starts, separatorEnd(content, i) + 1)

\* content.split(/(?<=[.!?])\s+/).
splitSentences(content) == sentencesFrom(content, separatorStarts(content), 1)

\* String.prototype.trim.
trim(s) ==
  IF \A i \in 1..Len(s) : isSpace(s[i]) THEN <<>>
  ELSE LET first == CHOOSE i \in 1..Len(s) :
                      ~isSpace(s[i]) /\ \A k \in 1..(i - 1) : isSpace(s[k])
           last  == CHOOSE i \in 1..Len(s) :
                      ~isSpace(s[i]) /\ \A k \in (i + 1)..Len(s) : isSpace(s[k])
       IN  SubSeq(s, first, last)

\* A chunk cut to CHUNK_SIZE characters.
newChunk_truncated(document, currentChunk, chunkIndex, startPosition) ==
  [documentId |-> document.id,
   content |-> slice0(trim(currentChunk), CHUNK_SIZE),
   chunkIndex |-> chunkIndex,
   embedding |-> <<>>,
   metadata |-> [startPosition |-> startPosition,
                 endPosition |-> startPosition + Len(currentChunk),
                 keywords |-> extractKeywords(currentChunk)]]

\* The chunk pushed at rag.ts 63-78 and 92-107; its embedding is null.
newChunk(document, currentChunk, chunkIndex, startPosition) ==
  [documentId |-> document.id,
   content |-> trim(currentChunk),
   chunkIndex |-> chunkIndex,
   embedding |-> <<>>,
   metadata |-> [startPosition |-> startPosition,
                 endPosition |-> startPosition + Len(currentChunk),
                 keywords |-> extractKeywords(currentChunk)]]

\* The test of rag.ts 61 never true: no chunk is closed inside the loop.
chunkFull_never(currentChunk, sentence) == FALSE

\* rag.ts 61: the sentence does not fit and there is a chunk to close.
chunkFull(currentChunk, sentence) ==
  Len(currentChunk) + Len(sentence) > CHUNK_SIZE /\ Len(currentChunk) > 0

\* rag.ts 81.
overlapStartOf(currentChunk) == Max2(0, Len(currentChunk) - CHUNK_OVERLAP)

\* The loop of rag.ts 60-88 from sentence k on, and the last chunk (90-108).
RECURSIVE chunkLoop(_, _, _, _, _, _)
chunkLoop(document, sentences, k, currentChunk, chunkIndex, startPosition) ==
  IF k > Len(sentences)
  THEN IF Len(trim(currentChunk)) > 0
       THEN <<newChunk(document, currentChunk, chunkIndex, startPosition)>>
       ELSE <<>>
  ELSE IF chunkFull(currentChunk, sentences[k])
       THEN <<newChunk(document, currentChunk, chunkIndex, startPosition)>>
            \o chunkLoop(document, sentences, k + 1,
                         SubSeq(currentChunk, overlapStartOf(currentChunk) + 1,
                                Len(currentChunk)) \o sentences[k],
                         chunkIndex + 1,
                         startPosition + overlapStartOf(currentChunk))
       ELSE chunkLoop(document, sentences, k + 1,
                      currentChunk \o (IF Len(currentChunk) > 0 THEN <<" ">> ELSE <<>>)
                                   \o sentences[k],
                      chunkIndex, startPosition)

chunkDocument(document) ==
  chunkLoop(document, splitSentences(document.content), 1, <<>>, 0, 0)

(***************************************************************************)
(* The inputs: stored chunks, requests and provider replies.               *)
(***************************************************************************)
MaxChunks == 3

MaxTopK == 2

MaxVariations == 3

\* The route /api/chat passes 5 (routes.ts 161), the default TOP_K.
TOP_K == 5

\* Contents of ingested one-sentence documents.
docTexts == << <<"W","e","t"," ","g","a","p"," ","p","a","c","e",".">>,
               <<"o","n","e"," ","l","a","p">>,
               <<"S","o","f","t"," ","t","i","r","e"," ","t","i","r","e",".">>,
               <<"T","i","r","e"," ","l","a","p">> >>

\* The embeddings stored on the chunks of a corpus that has some: the second
\* chunk has none.
docEmbeddings == << <<1, 0>>, <<>>, <<0 - 1, 1>>, <<1, 1>> >>

\* The chunk chunkDocument makes of a one-sentence document (rag.ts 91-108)
\* and createChunk stores, with the embedding updateChunkEmbedding wrote.
storedChunk(i, embedding) ==
  [id |-> i, documentId |-> i, content |-> docTexts[i], chunkIndex |-> 0,
   embedding |-> embedding,
   metadata |-> [startPosition |-> 0, endPosition |-> Len(docTexts[i]),
                 keywords |-> extractKeywords(docTexts[i])]]

Corpora ==
  {[i \in 1..n |-> storedChunk(i, <<>>)] : n \in 0..MaxChunks}
  \cup {[i \in 1..MaxChunks |-> storedChunk(i, docEmbeddings[i])]}

Queries == { <<"t","i","r","e">>,
             <<"l","a","p"," ","w","e","t"," ","g","a","p","s"," ","p","a","c","e","d">>,
             <<"(","t","i","r","e">>,
             <<"i","s"," ","i","t">> }

TopKs == (0 - 1)..MaxTopK

\* Paraphrases the text-generation provider may list.
paraphrases == << <<"w","e","t"," ","l","a","p">>,
                  <<"t","i","r","e">>,
                  <<"p","a","c","e">>,
                  <<"g","a","p">> >>

errorReply(status) ==
  [kind |-> "error", status |-> status, variations |-> absent, queries |-> absent]

contentReply(kind, variations, queries) ==
  [kind |-> kind, status |-> 0, variations |-> variations, queries |-> queries]

ErrorStatuses == {RATE_LIMIT, 500}

ExpansionReplies ==
  {errorReply(st) : st \in ErrorStatuses}
  \cup {contentReply("unparseable", absent, absent), contentReply("null", absent, absent)}
  \cup {contentReply("object", v, absent) :
          v \in {absent, jsonString(<<"w","e","t"," ","l","a","p">>), jsonNumber(3)}
                \cup {jsonArray(SubSeq(paraphrases, 1, n)) : n \in 0..MaxVariations}}
  \cup {contentReply("object", absent, jsonArray(SubSeq(paraphrases, 1, 1)))}

QueryVectors == {<<1, 0>>, <<0, 1>>}

EmbeddingReplies ==
  {[kind |-> "ok", status |-> 0, embedding |-> v] : v \in QueryVectors}
  \cup {[kind |-> "error", status |-> st, embedding |-> <<>>] : st \in ErrorStatuses}

\* The provider's answers to generateResponse's call: a text, or an error.
GenerationReplies ==
  {errorReply(st) : st \in ErrorStatuses} \cup {contentReply("text", absent, absent)}

\* The shape of a reply, as the spec's fallback rule sorts replies: an error,
\* no JSON, the JSON null, an object with no list under either key, a list, a
\* string or a number where the list should be, or (generateResponse) a text.
replyShape(reply) ==
  IF reply.kind # "object" THEN reply.kind
  ELSE IF truthy(reply.variations) THEN reply.variations.t
  ELSE IF truthy(reply.queries) THEN reply.queries.t
  ELSE "noList"

\* The texts generateEmbedding is called with: query variants and chunks.
EmbedTexts ==
  Queries \cup {paraphrases[i] : i \in 1..Len(paraphrases)}
          \cup {docTexts[i] : i \in 1..Len(docTexts)}

\* Documents for chunkDocument: up to MaxSentences sentences of the lengths
\* in SentenceLengths, words of five letters, ended by a stop and separated
\* by one or two blanks; and a blank document.
MaxSentences == 3

SentenceLengths == {100, 250, 450}

GapWidths == {1, 2}

sentenceOf(n) ==
  [i \in 1..n |-> IF i = n THEN "." ELSE IF i % 6 = 0 THEN " " ELSE "x"]

RECURSIVE contentOf(_, _)
contentOf(parts, i) ==
  IF i > Len(parts) THEN <<>>
  ELSE sentenceOf(parts[i][1])
       \o (IF i < Len(parts) THEN [k \in 1..parts[i][2] |-> " "] ELSE <<>>)
       \o contentOf(parts, i + 1)

\* Sentences for documents with a sentence longer than CHUNK_SIZE.
LongSentenceLengths == {100, 600}

TestDocuments ==
  {[id |-> 1, content |-> contentOf(parts, 1)] :
     parts \in UNION {[1..n -> SentenceLengths \X GapWidths] : n \in 1..MaxSentences}}
  \cup {[id |-> 1, content |-> contentOf(parts, 1)] :
          parts \in UNION {[1..n -> LongSentenceLengths \X {1}] : n \in 1..2}}
  \cup {[id |-> 1, content |-> <<" ">>]}

(***************************************************************************)
(* The state: the storage and one request on the routes POST /api/search   *)
(* and POST /api/chat (routes.ts 136-204).  A step is one run of the event *)
(* loop: a handler runs up to its next provider call or timer.             *)
(***************************************************************************)
VARIABLES
  chunks,           \* MemStorage.chunks, in insertion order
  pc,               \* "idle", "enhance", "embedding", "respond", "done"
  req,              \* the request: route, query, topK
  allChunks,        \* hybridRetrieval's snapshot of the corpus
  queryVariations,  \* hybridRetrieval's list of query variants
  enh,              \* enhanceQuery's provider call: calls, st, status
  ge,               \* the generateEmbedding invocations, one per variant
  vectorStage,      \* "none", "skipped", "pending", "merged", "failed"
  vectorScores,     \* hybridRetrieval's merged vector score map
  results,          \* what hybridRetrieval returned
  outcome,          \* of hybridRetrieval: "pending", "returned", "raised"
  gen,              \* generateResponse's provider call: calls, st, status
  http,             \* the response status, 0 while there is none
  elog,             \* the provider calls and timers of one generateEmbedding
  documents,        \* MemStorage.documents, in insertion order
  conversations,    \* MemStorage.conversations, in insertion order
  messages,         \* MemStorage.messages, in insertion order
  uuid,             \* how many ids randomUUID handed out, by collection
  procs,            \* the running processDocument activations
  startup,          \* the startup timer of registerRoutes and its handler
  served,           \* how many requests of each route were received
  fcall,            \* a function under test and its arguments
  fret              \* what that function returned

vars == <<chunks, pc, req, allChunks, queryVariations, enh, ge, vectorStage,
          vectorScores, results, outcome, gen, http, elog,
          documents, conversations, messages, uuid, procs, startup, served,
          fcall, fret>>

\* What a retrieval request leaves alone: it reads the chunks only.
restOfServer ==
  <<documents, conversations, messages, uuid, procs, startup, served, fcall, fret>>

\* randomUUID never repeats: an id is here its number among the ids of its
\* collection, and the code compares no ids of different collections.
noIds == [documents |-> 0, chunks |-> 0, conversations |-> 0, messages |-> 0]

\* No request was received yet.
noneServed == [uploads |-> 0, deletes |-> 0, failures |-> 0]

\* A call of openai.chat.completions.create: how many requests were made for
\* it, its state, the status of its error and the shape of its reply.
noCall == [calls |-> 0, st |-> "none", status |-> 0, shape |-> "none"]

issuedCall == [calls |-> 1, st |-> "inflight", status |-> 0, shape |-> "none"]

\* A create call under generateEmbedding's budget: a 429 is answered by a
\* further request while fewer than maxRetries were made.
completionAnswered_retrying(call, reply) ==
  IF reply.kind = "error" /\ reply.status = RATE_LIMIT /\ call.calls < maxRetries
  THEN [call EXCEPT !.calls = @ + 1]
  ELSE [call EXCEPT !.st = IF reply.kind = "error" THEN "raised" ELSE "returned",
                    !.status = reply.status,
                    !.shape = replyShape(reply)]

\* The awaited create call of rag.ts 184 and 409 settles: it resolves with the
\* reply or rejects with the provider's error.  Neither call site loops.
completionAnswered(call, reply) ==
  [call EXCEPT !.st = IF reply.kind = "error" THEN "raised" ELSE "returned",
               !.status = reply.status,
               !.shape = replyShape(reply)]

\* hybridRetrieval without the early return of rag.ts 257.
corpusEmpty_never(snapshot) == FALSE

\* hybridRetrieval without the test of rag.ts 270: the vector stage always runs.
hasEmbeddings_always(snapshot) == TRUE

\* rag.ts 257.
corpusEmpty(snapshot) == Len(snapshot) = 0

\* rag.ts 270.
hasEmbeddings(snapshot) == \E i \in 1..Len(snapshot) : hasEmbedding(snapshot[i])

noRequest == [route |-> "none", query |-> <<>>, topK |-> 0]

Init ==
  /\ chunks \in Corpora
  /\ pc = "idle"
  /\ req = noRequest
  /\ allChunks = <<>>
  /\ queryVariations = <<>>
  /\ enh = noCall
  /\ ge = <<>>
  /\ vectorStage = "none"
  /\ vectorScores = <<>>
  /\ results = <<>>
  /\ outcome = "pending"
  /\ gen = noCall
  /\ http = 0
  /\ elog = <<>>
  /\ documents = [i \in 1..Len(chunks) |-> [id |-> chunks[i].documentId,
                                            content |-> chunks[i].content]]
  /\ conversations = <<>>
  /\ messages = <<>>
  /\ uuid = [noIds EXCEPT !.documents = Len(chunks), !.chunks = Len(chunks)]
  /\ procs = <<>>
  /\ startup = "done"
  /\ served = noneServed
  /\ fcall = <<>>
  /\ fret = <<>>

\* hybridRetrieval returned or raised: what the route does next.  /api/chat
\* goes on to generateResponse, whose provider call it issues (routes.ts
\* 164, rag.ts 409); /api/search answers; a raise is answered with 500.
routeAfter(raised) ==
  IF raised
  THEN pc' = "done" /\ http' = 500 /\ gen' = gen
  ELSE IF req'.route = "chat"
       THEN pc' = "respond" /\ http' = 0 /\ gen' = issuedCall
       ELSE pc' = "done" /\ http' = 200 /\ gen' = gen

\* rag.ts 292-356 and the return to the route, for the request in progress.
finishRetrieval(stage, scores) ==
  \E f \in {fuseAndRank(allChunks, req.query, req.topK, scores)} :
    /\ vectorStage' = stage
    /\ vectorScores' = scores
    /\ results' = f.results
    /\ outcome' = IF f.raised THEN "raised" ELSE "returned"
    /\ routeAfter(f.raised)

\* hybridRetrieval is called (rag.ts 251-262): the corpus is loaded; an empty
\* one returns at once, otherwise enhanceQuery issues its provider call.
hybridRetrieval(route, query, topK) ==
  /\ req' = [route |-> route, query |-> query, topK |-> topK]
  /\ allChunks' = chunks
  /\ UNCHANGED <<chunks, queryVariations, ge, vectorStage, vectorScores, elog, restOfServer>>
  /\ IF corpusEmpty(chunks)
     THEN /\ results' = <<>>
          /\ outcome' = "returned"
          /\ enh' = enh
          /\ routeAfter(FALSE)
     ELSE /\ pc' = "enhance"
          /\ enh' = issuedCall
          /\ UNCHANGED <<results, outcome, gen, http>>

\* POST /api/search (routes.ts 190-204): topK is taken from the body as is.
PostSearch(query, topK) ==
  /\ pc = "idle"
  /\ IF Len(query) = 0
     THEN /\ pc' = "done"
          /\ http' = 400
          /\ req' = [route |-> "search", query |-> query, topK |-> topK]
          /\ UNCHANGED <<chunks, allChunks, queryVariations, enh, ge, vectorStage,
                         vectorScores, results, outcome, gen, elog, restOfServer>>
     ELSE hybridRetrieval("search", query, topK)

\* POST /api/chat (routes.ts 136-186), for a valid body with a conversation.
PostChat(message) ==
  /\ pc = "idle"
  /\ Len(message) > 0
  /\ hybridRetrieval("chat", message, TOP_K)

\* The text-generation provider answers enhanceQuery's call (rag.ts 200-206,
\* 263-290): the variants are fixed; with stored embeddings every variant's
\* generateEmbedding issues its first call, without them retrieval finishes.
EnhanceReply(reply) ==
  /\ pc = "enhance"
  /\ enh' = completionAnswered(enh, reply)
  /\ queryVariations' = variationsFor(req.query, reply)
  /\ UNCHANGED <<chunks, req, allChunks, elog, restOfServer>>
  /\ IF hasEmbeddings(allChunks)
     THEN /\ ge' = [i \in 1..Len(queryVariations') |-> newEmbeddingCall(queryVariations'[i])]
          /\ pc' = "embedding"
          /\ vectorStage' = "pending"
          /\ UNCHANGED <<vectorScores, results, outcome, gen, http>>
     ELSE /\ ge' = ge
          /\ finishRetrieval("skipped", <<>>)

\* A search that stores the first query embedding on every chunk that has no
\* embedding.
RECURSIVE chunksAfterSearch_writeBack(_, _)
chunksAfterSearch_writeBack(chunkSeq, queryEmbeddings) ==
  IF chunkSeq = <<>> THEN <<>>
  ELSE <<IF hasEmbedding(Head(chunkSeq)) THEN Head(chunkSeq)
         ELSE [Head(chunkSeq) EXCEPT !.embedding = queryEmbeddings[1]]>>
       \o chunksAfterSearch_writeBack(Tail(chunkSeq), queryEmbeddings)

\* MemStorage.chunks after the searches of rag.ts 280-281: storage.ts 194-216
\* read the map, build new objects and assign to no chunk.
chunksAfterSearch(chunkSeq, queryEmbeddings) == chunkSeq

\* The embedding provider answers the pending call of invocation i.  While
\* Promise.all is pending (rag.ts 275), the first rejection lands in the catch
\* and the last fulfilment starts the searches; either way hybridRetrieval
\* runs to its end without a further suspension on a provider.
EmbeddingReply(i, out) ==
  /\ pc \in {"embedding", "respond", "done"}
  /\ i \in 1..Len(ge)
  /\ ge[i].st = "inflight"
  /\ ge' = [ge EXCEPT ![i] = promiseOf(embeddingAnswered(ge[i], out))]
  /\ UNCHANGED <<req, allChunks, queryVariations, enh, elog, restOfServer>>
  /\ IF pc = "embedding" /\ ge'[i].st = "raised"
     THEN /\ chunks' = chunks
          /\ finishRetrieval("failed", <<>>)
     ELSE IF pc = "embedding" /\ \A j \in 1..Len(ge) : ge'[j].st = "returned"
          THEN \E queryEmbeddings \in {[j \in 1..Len(ge) |-> ge'[j].embedding]} :
               \E merged \in {vectorSearch(<<>>, queryEmbeddings, 1, chunks, req.topK)} :
                 /\ chunks' = chunksAfterSearch(chunks, queryEmbeddings)
                 /\ finishRetrieval("merged", merged)
          ELSE UNCHANGED <<chunks, pc, vectorStage, vectorScores, results, outcome,
                           gen, http>>

\* The back-off timer of invocation i fires (rag.ts 169-170).
RetryTimer(i) ==
  /\ pc \in {"embedding", "respond", "done"}
  /\ i \in 1..Len(ge)
  /\ ge[i].st = "waiting"
  /\ ge' = [ge EXCEPT ![i] = promiseOf(embeddingRetry(ge[i]))]
  /\ UNCHANGED <<chunks, pc, req, allChunks, queryVariations, enh, vectorStage,
                 vectorScores, results, outcome, gen, http, elog, restOfServer>>

\* The text-generation provider answers generateResponse's call (rag.ts
\* 409-418, routes.ts 164-185): an answer is sent, an error is a 500.
GenerateReply(out) ==
  /\ pc = "respond"
  /\ gen' = completionAnswered(gen, out)
  /\ http' = IF gen'.st = "returned" THEN 200 ELSE 500
  /\ pc' = "done"
  /\ UNCHANGED <<chunks, req, allChunks, queryVariations, enh, ge, vectorStage,
                 vectorScores, results, outcome, elog, restOfServer>>

Next ==
  \/ \E q \in Queries \cup {<<>>}, k \in TopKs : PostSearch(q, k)
  \/ \E q \in Queries : PostChat(q)
  \/ \E reply \in ExpansionReplies : EnhanceReply(reply)
  \/ \E i \in 1..MaxVariations, out \in EmbeddingReplies : EmbeddingReply(i, out)
  \/ \E i \in 1..MaxVariations : RetryTimer(i)
  \/ \E out \in GenerationReplies : GenerateReply(out)

Spec == Init /\ [][Next]_vars

(***************************************************************************)
(* One invocation of generateEmbedding on its own, every provider call and *)
(* every timer it sets recorded in elog.                                   *)
(***************************************************************************)
callEvent == [e |-> "call", ms |-> 0, status |-> 0, embedding |-> <<>>]

waitEvent(ms) == [e |-> "wait", ms |-> ms, status |-> 0, embedding |-> <<>>]

replyEvent(out) ==
  [e |-> "reply", ms |-> 0, status |-> IF out.kind = "ok" THEN 200 ELSE out.status,
   embedding |-> out.embedding]

InitEmbed ==
  /\ chunks = <<>>
  /\ pc = "caller"
  /\ req = noRequest
  /\ allChunks = <<>>
  /\ queryVariations = <<>>
  /\ enh = noCall
  /\ ge = <<>>
  /\ vectorStage = "none"
  /\ vectorScores = <<>>
  /\ results = <<>>
  /\ outcome = "pending"
  /\ gen = noCall
  /\ http = 0
  /\ elog = <<>>
  /\ documents = <<>>
  /\ conversations = <<>>
  /\ messages = <<>>
  /\ uuid = noIds
  /\ procs = <<>>
  /\ startup = "done"
  /\ served = noneServed
  /\ fcall = <<>>
  /\ fret = <<>>

embedFrame ==
  UNCHANGED <<chunks, req, allChunks, queryVariations, enh, vectorStage,
              vectorScores, results, outcome, gen, http, restOfServer>>

\* generateEmbedding(text) is called: the loop's first provider call.
GenerateEmbedding(text) ==
  /\ pc = "caller"
  /\ pc' = "generateEmbedding"
  /\ ge' = <<newEmbeddingCall(text)>>
  /\ elog' = <<callEvent>>
  /\ embedFrame

\* The provider answers; a retried error sets the timer with the delay.
ProviderReply(out) ==
  /\ pc = "generateEmbedding"
  /\ ge[1].st = "inflight"
  /\ ge' = <<embeddingAnswered(ge[1], out)>>
  /\ elog' = elog \o <<replyEvent(out)>>
                  \o (IF ge'[1].st = "waiting" THEN <<waitEvent(ge[1].delay)>> ELSE <<>>)
  /\ pc' = pc
  /\ embedFrame

\* The timer fires; the next attempt, if the loop has one, calls the provider.
BackoffTimer ==
  /\ pc = "generateEmbedding"
  /\ ge[1].st = "waiting"
  /\ ge' = <<embeddingRetry(ge[1])>>
  /\ elog' = elog \o (IF ge'[1].st = "inflight" THEN <<callEvent>> ELSE <<>>)
  /\ pc' = pc
  /\ embedFrame

NextEmbed ==
  \/ \E text \in EmbedTexts : GenerateEmbedding(text)
  \/ \E out \in EmbeddingReplies : ProviderReply(out)
  \/ BackoffTimer

SpecEmbed == InitEmbed /\ [][NextEmbed]_vars

\* The provider answers every call and a set timer fires.
FairSpecEmbed == SpecEmbed /\ WF_vars(NextEmbed)

(***************************************************************************)
(* The functions on their own: one call, its arguments in fcall and its    *)
(* result in fret.                                                         *)
(***************************************************************************)
noCallYet == [f |-> "none"]

InitFun ==
  /\ chunks = <<>>
  /\ pc = "caller"
  /\ req = noRequest
  /\ allChunks = <<>>
  /\ queryVariations = <<>>
  /\ enh = noCall
  /\ ge = <<>>
  /\ vectorStage = "none"
  /\ vectorScores = <<>>
  /\ results = <<>>
  /\ outcome = "pending"
  /\ gen = noCall
  /\ http = 0
  /\ elog = <<>>
  /\ documents = <<>>
  /\ conversations = <<>>
  /\ messages = <<>>
  /\ uuid = noIds
  /\ procs = <<>>
  /\ startup = "done"
  /\ served = noneServed
  /\ fcall = noCallYet
  /\ fret = <<>>

funFrame ==
  UNCHANGED <<chunks, pc, req, allChunks, queryVariations, enh, ge, vectorStage,
              vectorScores, results, outcome, gen, http, elog,
              documents, conversations, messages, uuid, procs, startup, served>>

CallChunkDocument(document) ==
  /\ fcall = noCallYet
  /\ fcall' = [f |-> "chunkDocument", document |-> document]
  /\ fret' = chunkDocument(document)
  /\ funFrame

\* Queries for bm25Search: those of the requests, and one whose term has a
\* character that is special in a pattern.
TestQueries == Queries \cup {<<"l", ".", "p">>, <<"T", "I", "R", "E", " ", "o", "n">>}

\* bm25Search is called on a corpus that is not empty (rag.ts 257, 293).
CallBm25Search(query, chunkSeq) ==
  /\ fcall = noCallYet
  /\ Len(chunkSeq) > 0
  /\ fcall' = [f |-> "bm25Search", query |-> query, chunks |-> chunkSeq]
  /\ fret' = bm25Search(query, chunkSeq)
  /\ funFrame

\* Vectors for cosineSimilarity: up to MaxDim components.
MaxDim == 2

Components == {-1, 0, 1, 2}

TestVectors == UNION {[1..n -> Components] : n \in 0..MaxDim}

CallCosineSimilarity(x, y) ==
  /\ fcall = noCallYet
  /\ fcall' = [f |-> "cosineSimilarity", a |-> x, b |-> y]
  /\ fret' = cosineSimilarity(x, y)
  /\ funFrame

\* enhanceQuery is called and the provider answers its one call.
CallEnhanceQuery(query, reply) ==
  /\ fcall = noCallYet
  /\ fcall' = [f |-> "enhanceQuery", query |-> query, reply |-> reply]
  /\ fret' = enhanceQuery(query, reply)
  /\ funFrame

\* Stored embeddings and query embeddings for the fusion: similarities of
\* 1, 0, about 0.45 and about -0.45 occur, and query vectors no stored
\* embedding is similar to.
ChunkVectors == { <<>>, <<1, 0>>, <<0 - 1, 2>>, <<0, 1>> }

FusionCorpora ==
  {<<storedChunk(3, x), storedChunk(4, y)>> : x \in ChunkVectors, y \in ChunkVectors}

FusionVectors == { <<1, 0>>, <<0, 0 - 1>>, <<0 - 1, 0>> }

FusionEmbeddings ==
  {<<x>> : x \in FusionVectors} \cup {<<x, y>> : x \in FusionVectors, y \in FusionVectors}

\* hybridRetrieval from step 3 on (rag.ts 268-356) is applied to a corpus
\* snapshot and the embeddings of the query variations.
CallFuseAndRank(query, topK, chunkSeq, queryEmbeddings) ==
  /\ fcall = noCallYet
  /\ fcall' = [f |-> "fuseAndRank", query |-> query, topK |-> topK,
               chunks |-> chunkSeq, embeddings |-> queryEmbeddings]
  /\ fret' = fuseAndRank(chunkSeq, query, topK,
                         vectorSearch(<<>>, queryEmbeddings, 1, chunkSeq, topK))
  /\ funFrame

\* Steps 5 and 6 of hybridRetrieval (rag.ts 295-320) are applied to the
\* merged vector scores and the keyword scores: what is computed for every
\* chunk of the corpus, and the candidates that are kept.
RECURSIVE scoredAll(_, _, _, _, _)
scoredAll(snapshot, i, queryLower, scores, keywordScores) ==
  IF i > Len(snapshot) THEN <<>>
  ELSE <<scoreChunk(snapshot[i], queryLower, scores, keywordScores,
                    maxScore(scores), maxScore(keywordScores))>>
       \o scoredAll(snapshot, i + 1, queryLower, scores, keywordScores)

CallCombine(query, topK, chunkSeq, queryEmbeddings) ==
  /\ fcall = noCallYet
  /\ LET scores == vectorSearch(<<>>, queryEmbeddings, 1, chunkSeq, topK)
         bm == bm25Search(query, chunkSeq)
     IN  /\ ~bm.threw
         /\ fcall' = [f |-> "combine", query |-> query, chunks |-> chunkSeq,
                      vectorScores |-> scores, bm25Scores |-> bm.scores]
         /\ fret' = [scored |-> scoredAll(chunkSeq, 1, toLowerCase(query),
                                          scores, bm.scores),
                     candidates |-> rerankedResults(chunkSeq, query, scores,
                                                    bm.scores)]
  /\ funFrame

\* Corpora of three chunks for the vector stage alone.
VectorCorpora ==
  {<<storedChunk(1, x), storedChunk(3, y), storedChunk(4, z)>> :
     x \in ChunkVectors, y \in ChunkVectors, z \in ChunkVectors}

\* The loop of rag.ts 280-286 is applied to the embeddings of the variants.
CallVectorSearch(queryEmbeddings, chunkSeq, topK) ==
  /\ fcall = noCallYet
  /\ fcall' = [f |-> "vectorSearch", embeddings |-> queryEmbeddings,
               chunks |-> chunkSeq, topK |-> topK]
  /\ fret' = vectorSearch(<<>>, queryEmbeddings, 1, chunkSeq, topK)
  /\ funFrame

\* The topK values hybridRetrieval passes on (rag.ts 281), and 1.
SearchTopKs == {topK * 2 : topK \in TopKs} \cup {1}

\* storage.searchChunksByEmbedding is called on a storage with these chunks.
CallSearchChunksByEmbedding(queryEmbedding, topK, chunkSeq) ==
  /\ fcall = noCallYet
  /\ fcall' = [f |-> "searchChunksByEmbedding", embedding |-> queryEmbedding,
               topK |-> topK, chunks |-> chunkSeq]
  /\ fret' = searchChunksByEmbedding(chunkSeq, queryEmbedding, topK)
  /\ funFrame

NextFun ==
  \/ \E document \in TestDocuments : CallChunkDocument(document)
  \/ \E query \in TestQueries, reply \in ExpansionReplies : CallEnhanceQuery(query, reply)
  \/ \E x \in TestVectors, y \in TestVectors : CallCosineSimilarity(x, y)
  \/ \E query \in TestQueries, chunkSeq \in Corpora : CallBm25Search(query, chunkSeq)
  \/ \E query \in Queries, topK \in TopKs, chunkSeq \in FusionCorpora,
        queryEmbeddings \in FusionEmbeddings :
       CallFuseAndRank(query, topK, chunkSeq, queryEmbeddings)
  \/ \E queryEmbeddings \in FusionEmbeddings, chunkSeq \in VectorCorpora, topK \in TopKs :
       CallVectorSearch(queryEmbeddings, chunkSeq, topK)
  \/ \E query \in Queries, topK \in TopKs, chunkSeq \in FusionCorpora,
        queryEmbeddings \in FusionEmbeddings :
       CallCombine(query, topK, chunkSeq, queryEmbeddings)
  \/ \E queryEmbedding \in FusionVectors, topK \in SearchTopKs, chunkSeq \in VectorCorpora :
       CallSearchChunksByEmbedding(queryEmbedding, topK, chunkSeq)

SpecFun == InitFun /\ [][NextFun]_vars

(***************************************************************************)
(* The storage under the document and conversation routes and the startup  *)
(* timer (routes.ts 21-134, rag.ts 34-48 and 423-470, storage.ts 49-298).  *)
(* A step is one run of the event loop: the awaited storage methods settle *)
(* in the same run, a handler is suspended in generateEmbedding and in the *)
(* retrieval of /api/chat only.                                            *)
(***************************************************************************)
\* How many deletions and rejected calls of generateEmbedding a behaviour
\* has, taken together; an upload, which starts an activity of its own,
\* counts as two of them.
MaxEvents == 3

\* The contents seedSampleData creates documents with: texts longer than
\* CHUNK_SIZE, as the sample texts of storage.ts 71-98 are, here two of them.
sampleContents == << contentOf(<< <<450, 1>>, <<100, 1>> >>, 1),
                     contentOf(<< <<250, 1>>, <<450, 1>> >>, 1) >>

\* The contents uploaded: of one chunk and of two chunks.
UploadContents == { contentOf(<< <<100, 1>> >>, 1),
                    contentOf(<< <<450, 2>>, <<250, 1>> >>, 1) }

\* What generateEmbedding resolves with, when it does.
ChunkEmbedding == <<1, 0>>

EmbeddingOutcomes == {"resolved", "rejected"}

\* storage.ts 143-152.
createDocument(docSeq, id, content) == Append(docSeq, [id |-> id, content |-> content])

\* storage.ts 139-141: the stored document, <<>> for undefined.
getDocument(docSeq, id) ==
  LET named(d) == d.id = id IN SelectSeq(docSeq, named)

\* storage.ts 169-173.
getChunksByDocumentId(chunkSeq, documentId) ==
  LET owned(c) == c.documentId = documentId IN SelectSeq(chunkSeq, owned)

\* storage.ts 155: this.documents.delete(id).
documentsAfterDelete(docSeq, id) ==
  LET other(d) == d.id # id IN SelectSeq(docSeq, other)

\* storage.ts 157-161: the chunks of the document are deleted.
chunksAfterDelete(chunkSeq, id) ==
  LET other(c) == c.documentId # id IN SelectSeq(chunkSeq, other)

\* storage.ts 175-180.
createChunk(chunkSeq, chunk, id) ==
  Append(chunkSeq,
         [id |-> id, documentId |-> chunk.documentId, content |-> chunk.content,
          chunkIndex |-> chunk.chunkIndex, embedding |-> chunk.embedding,
          metadata |-> chunk.metadata])

\* updateChunkEmbedding without the test of storage.ts 184: the embedding is
\* set under the id, stored or not.
updateChunkEmbedding_unguarded(chunkSeq, id, embedding) ==
  IF \E i \in 1..Len(chunkSeq) : chunkSeq[i].id = id
  THEN [i \in 1..Len(chunkSeq) |->
          IF chunkSeq[i].id = id THEN [chunkSeq[i] EXCEPT !.embedding = embedding]
          ELSE chunkSeq[i]]
  ELSE Append(chunkSeq,
              [id |-> id, documentId |-> 0, content |-> <<>>, chunkIndex |-> 0,
               embedding |-> embedding,
               metadata |-> [startPosition |-> 0, endPosition |-> 0,
                             keywords |-> <<>>]])

\* storage.ts 182-188: nothing happens when the chunk is not stored.
updateChunkEmbedding(chunkSeq, id, embedding) ==
  [i \in 1..Len(chunkSeq) |->
     IF chunkSeq[i].id = id THEN [chunkSeq[i] EXCEPT !.embedding = embedding]
     ELSE chunkSeq[i]]

\* storage.ts 66-109: the documents stored if there are any, else the sample
\* documents, which are created.
RECURSIVE createSamples(_, _, _)
createSamples(docSeq, nextId, i) ==
  IF i > Len(sampleContents) THEN docSeq
  ELSE createSamples(createDocument(docSeq, nextId + 1, sampleContents[i]),
                     nextId + 1, i + 1)

seedSampleData(docSeq, nextId) ==
  IF Len(docSeq) > 0
  THEN [documents |-> docSeq, uuid |-> nextId, sampleDocs |-> docSeq]
  ELSE LET created == createSamples(<<>>, nextId, 1)
       IN  [documents |-> created, uuid |-> nextId + Len(created),
            sampleDocs |-> created]

\* An activation of processDocument, of the timer's handler or of
\* initializeEmbeddings, suspended in generateEmbedding for the chunk chunkId:
\* made is the list chunkDocument returned (rag.ts 35), k the place of that
\* chunk in it, rest the documents the timer's handler has still to process,
\* todo the chunks initializeEmbeddings has still to embed.
activation(kind, made, k, chunkId, rest, todo) ==
  [kind |-> kind, made |-> made, k |-> k, chunkId |-> chunkId,
   rest |-> rest, todo |-> todo]

\* rag.ts 37-38: the loop of processDocument takes the k-th chunk, if there
\* is one, stores it and calls generateEmbedding.
processFrom(chunkSeq, nextId, made, k) ==
  IF k <= Len(made)
  THEN [chunks |-> createChunk(chunkSeq, made[k], nextId + 1),
        uuid |-> nextId + 1, waiting |-> TRUE]
  ELSE [chunks |-> chunkSeq, uuid |-> nextId, waiting |-> FALSE]

\* rag.ts 453-456: the ids of the chunks without an embedding.
RECURSIVE chunksWithoutEmbeddings(_, _)
chunksWithoutEmbeddings(chunkSeq, i) ==
  IF i > Len(chunkSeq) THEN <<>>
  ELSE (IF hasEmbedding(chunkSeq[i]) THEN <<>> ELSE <<chunkSeq[i].id>>)
       \o chunksWithoutEmbeddings(chunkSeq, i + 1)

\* rag.ts 452-470, up to the first call of generateEmbedding.
initializeEmbeddings(chunkSeq, nextId) ==
  LET todo == chunksWithoutEmbeddings(chunkSeq, 1)
  IN  [chunks |-> chunkSeq, uuid |-> nextId,
       proc |-> IF todo = <<>> THEN <<>>
                ELSE <<activation("initializeEmbeddings", <<>>, 0, Head(todo),
                                  <<>>, Tail(todo))>>]

\* routes.ts 26-35: the handler of the timer goes through the documents that
\* are left, up to the next call of generateEmbedding.
RECURSIVE startupFrom(_, _, _)
startupFrom(chunkSeq, nextId, queue) ==
  IF queue = <<>> THEN initializeEmbeddings(chunkSeq, nextId)
  ELSE LET made == chunkDocument(Head(queue))
           r == processFrom(chunkSeq, nextId, made, 1)
       IN  IF r.waiting
           THEN [chunks |-> r.chunks, uuid |-> r.uuid,
                 proc |-> <<activation("startup", made, 1, r.uuid,
                                       Tail(queue), <<>>)>>]
           ELSE startupFrom(chunkSeq, nextId, Tail(queue))

\* The activations with the i-th replaced by those of with (none or one).
replaced(procSeq, i, with) ==
  SubSeq(procSeq, 1, i - 1) \o with \o SubSeq(procSeq, i + 1, Len(procSeq))

\* The conversations and messages stored when the first document request
\* arrives: a conversation of POST /api/conversations with the two messages
\* of one POST /api/chat (routes.ts 99-108, 146-172).
StoredConversations ==
  { [conversations |-> <<[id |-> 1]>>,
     messages |-> <<[id |-> 1, conversationId |-> 1, role |-> "user"],
                    [id |-> 2, conversationId |-> 1, role |-> "assistant"]>>] }

InitIngest ==
  /\ chunks = <<>>
  /\ pc = "idle"
  /\ req = noRequest
  /\ allChunks = <<>>
  /\ queryVariations = <<>>
  /\ enh = noCall
  /\ ge = <<>>
  /\ vectorStage = "none"
  /\ vectorScores = <<>>
  /\ results = <<>>
  /\ outcome = "pending"
  /\ gen = noCall
  /\ http = 0
  /\ elog = <<>>
  /\ documents = <<>>
  /\ \E stored \in StoredConversations :
       /\ conversations = stored.conversations
       /\ messages = stored.messages
       /\ uuid = [noIds EXCEPT !.conversations = Len(stored.conversations),
                               !.messages = Len(stored.messages)]
  /\ procs = <<>>
  /\ startup = "pending"
  /\ served = noneServed
  /\ fcall = <<>>
  /\ fret = <<>>

eventsLeft(cost) ==
  2 * served.uploads + served.deletes + served.failures + cost <= MaxEvents

ingestFrame ==
  UNCHANGED <<pc, req, allChunks, queryVariations, enh, ge, vectorStage, vectorScores,
              results, outcome, gen, elog, fcall, fret>>

\* processDocument without the try of rag.ts 40: a rejection of
\* generateEmbedding ends the loop.
loopGoesOn_unguarded(settled) == settled = "resolved"

\* rag.ts 40-45: the rejection is caught and logged, so the loop of
\* processDocument goes on to the next chunk after either outcome.
loopGoesOn(settled) == settled \in {"resolved", "rejected"}

\* POST /api/documents (routes.ts 57-72): ingestDocument creates the document
\* and processDocument runs up to its first call of generateEmbedding.
PostDocument(content) ==
  /\ eventsLeft(2)
  /\ LET id == uuid.documents + 1
         made == chunkDocument([id |-> id, content |-> content])
         r == processFrom(chunks, uuid.chunks, made, 1)
     IN  /\ documents' = createDocument(documents, id, content)
         /\ chunks' = r.chunks
         /\ uuid' = [uuid EXCEPT !.documents = id, !.chunks = r.uuid]
         /\ procs' = IF r.waiting
                     THEN Append(procs, activation("ingestDocument", made, 1,
                                                   r.uuid, <<>>, <<>>))
                     ELSE procs
         /\ http' = IF r.waiting THEN http ELSE 200
  /\ served' = [served EXCEPT !.uploads = @ + 1]
  /\ UNCHANGED <<conversations, messages, startup>>
  /\ ingestFrame

\* The timer of routes.ts 22 fires: seedSampleData, then processExistingDocument
\* for the first of the documents it returned, up to generateEmbedding.
StartupTimer ==
  /\ startup = "pending"
  /\ LET seeded == seedSampleData(documents, uuid.documents)
         r == startupFrom(chunks, uuid.chunks, seeded.sampleDocs)
     IN  /\ documents' = seeded.documents
         /\ chunks' = r.chunks
         /\ uuid' = [uuid EXCEPT !.documents = seeded.uuid, !.chunks = r.uuid]
         /\ procs' = procs \o r.proc
         /\ startup' = IF r.proc = <<>> THEN "done" ELSE "running"
  /\ UNCHANGED <<conversations, messages, served, http>>
  /\ ingestFrame

\* The generateEmbedding call of the i-th activation settles (rag.ts 41-46,
\* 462-467) and the activation runs on: to its next call, or to its end.  At
\* the end of ingestDocument the route answers with the document (routes.ts
\* 67); a rejection of processDocument would be answered with 400 (routes.ts
\* 68-71) and would end the timer's handler in its catch (routes.ts 37-39).
EmbeddingSettled(i, settled) ==
  /\ i \in 1..Len(procs)
  /\ settled = "rejected" => eventsLeft(1)
  /\ served' = IF settled = "rejected" THEN [served EXCEPT !.failures = @ + 1]
               ELSE served
  /\ LET p == procs[i]
         updated == IF settled = "resolved"
                    THEN updateChunkEmbedding(chunks, p.chunkId, ChunkEmbedding)
                    ELSE chunks
     IN  IF p.kind = "initializeEmbeddings"
         THEN /\ chunks' = updated
              /\ uuid' = uuid
              /\ procs' = replaced(procs, i,
                            IF p.todo = <<>> THEN <<>>
                            ELSE <<[p EXCEPT !.chunkId = Head(p.todo),
                                             !.todo = Tail(p.todo)]>>)
              /\ startup' = IF p.todo = <<>> THEN "done" ELSE startup
              /\ http' = http
         ELSE IF ~loopGoesOn(settled)
         THEN /\ chunks' = updated
              /\ uuid' = uuid
              /\ procs' = replaced(procs, i, <<>>)
              /\ startup' = IF p.kind = "startup" THEN "done" ELSE startup
              /\ http' = IF p.kind = "ingestDocument" THEN 400 ELSE http
         ELSE LET r == processFrom(updated, uuid.chunks, p.made, p.k + 1)
              IN  IF r.waiting
                  THEN /\ chunks' = r.chunks
                       /\ uuid' = [uuid EXCEPT !.chunks = r.uuid]
                       /\ procs' = replaced(procs, i,
                                     <<[p EXCEPT !.k = p.k + 1, !.chunkId = r.uuid]>>)
                       /\ startup' = startup
                       /\ http' = http
                  ELSE IF p.kind = "ingestDocument"
                  THEN /\ chunks' = updated
                       /\ uuid' = uuid
                       /\ procs' = replaced(procs, i, <<>>)
                       /\ startup' = startup
                       /\ http' = 200
                  ELSE LET t == startupFrom(updated, uuid.chunks, p.rest)
                       IN  /\ chunks' = t.chunks
                           /\ uuid' = [uuid EXCEPT !.chunks = t.uuid]
                           /\ procs' = replaced(procs, i, t.proc)
                           /\ startup' = IF t.proc = <<>> THEN "done" ELSE startup
                           /\ http' = http
  /\ UNCHANGED <<documents, conversations, messages>>
  /\ ingestFrame

\* DELETE /api/documents/:id (routes.ts 75-83), for any id.
DeleteDocument(id) ==
  /\ eventsLeft(1)
  /\ documents' = documentsAfterDelete(documents, id)
  /\ chunks' = chunksAfterDelete(chunks, id)
  /\ served' = [served EXCEPT !.deletes = @ + 1]
  /\ UNCHANGED <<conversations, messages, uuid, procs, startup, http>>
  /\ ingestFrame

\* The document ids a client can have read in a response: those of the
\* stored documents and of the stored chunks.  No document has the id 0.
knownDocumentIds ==
  {documents[i].id : i \in 1..Len(documents)}
  \cup {chunks[i].documentId : i \in 1..Len(chunks)}

NextIngest ==
  \/ \E content \in UploadContents : PostDocument(content)
  \/ StartupTimer
  \/ \E i \in 1..Len(procs), settled \in EmbeddingOutcomes : EmbeddingSettled(i, settled)
  \/ \E id \in knownDocumentIds \cup {0} : DeleteDocument(id)

SpecIngest == InitIngest /\ [][NextIngest]_vars

(***************************************************************************)
(* The properties.  Scores are in thousandths: 1.0 is SCALE.               *)
(***************************************************************************)

\* hybridRetrieval was called for the request.
hybridCalled == req.route # "none" /\ Len(req.query) > 0

\* No stored chunk has a non-empty embedding.
noStoredEmbedding == \A i \in 1..Len(chunks) : Len(chunks[i].embedding) = 0

\* The results are in non-increasing combinedScore order.
byCombinedScore(rs) ==
  \A i, j \in 1..Len(rs) : i < j => rs[i].combinedScore >= rs[j].combinedScore

\* The number of r's metadata keywords that occur in the lower-cased query.
keywordHits(r, query) ==
  Cardinality({i \in 1..Len(r.metadata.keywords) :
                  includes(toLowerCase(query), r.metadata.keywords[i])})

\* C1: on a storage with no chunks hybridRetrieval returns the empty list
\* without raising, whatever the query and topK, and has called neither the
\* text-generation provider (for the expansion) nor the embedding provider.
C1_EmptyCorpusReturnsAtOnce ==
  (hybridCalled /\ chunks = <<>>) =>
     /\ outcome = "returned"
     /\ results = <<>>
     /\ enh.calls = 0
     /\ ge = <<>>

\* An empty storage was searched with a negative topK, and the route answered.
C1_Witness ==
  /\ chunks = <<>>
  /\ req.route = "search" /\ Len(req.query) > 0 /\ req.topK < 0
  /\ outcome = "returned" /\ pc = "done" /\ http = 200

\* C2: for every integer topK, corpus and query, hybridRetrieval returns at
\* most topK results (read for a topK below 0 as: none), and they are in
\* non-increasing combinedScore order.
C2_TopKContract ==
  outcome = "returned" =>
     /\ Len(results) <= Max2(req.topK, 0)
     /\ byCombinedScore(results)

\* C3: every returned RetrievedChunk has 0 <= combinedScore <= 1, whatever
\* the corpus, the query and the number of matching metadata keywords.
C3_ScoreCap ==
  \A i \in 1..Len(results) :
     results[i].combinedScore >= 0 /\ results[i].combinedScore <= SCALE

\* A result whose boosted score would exceed 1.0 was returned with 1.0.
C3_Witness ==
  /\ outcome = "returned"
  /\ vectorStage = "skipped"
  /\ \E i \in 1..Len(results) :
        /\ results[i].bm25Score * (10 + keywordHits(results[i], req.query)) > 10 * SCALE
        /\ results[i].combinedScore = SCALE

\* C4: if an embedding call made for the query variants fails, hybridRetrieval
\* still returns instead of raising, and the result has no vector
\* contribution: no vector score is kept, every vectorScore is 0 and the
\* keyword score has weight 1.0.
C4_EmbeddingFailureDegrades ==
  vectorStage = "failed" =>
     /\ outcome = "returned"
     /\ vectorScores = <<>>
     /\ \A i \in 1..Len(results) :
           /\ results[i].vectorScore = 0
           /\ results[i].combinedScore =
                Min2((results[i].bm25Score * (10 + keywordHits(results[i], req.query))) \div 10,
                     SCALE)

\* The replies after which the expansion has no list of variations: an
\* error, no JSON, null, no list under either key, a value of another shape.
noVariationList == {"error", "unparseable", "null", "noList", "string", "number"}

\* C5: if the expansion call fails or its output is malformed or missing, the
\* query variants are exactly [original query] and retrieval goes on to the
\* scoring stages.
C5_ExpansionFallback ==
  (enh.st \in {"returned", "raised"} /\ enh.shape \in noVariationList) =>
     /\ queryVariations = <<req.query>>
     /\ vectorStage # "none"

\* C6: when no chunk has a non-empty embedding, hybridRetrieval starts no
\* embedding call and every returned result has vectorScore = 0.
C6_NoEmbeddingsNoVectorStage ==
  (hybridCalled /\ noStoredEmbedding) =>
     /\ ge = <<>>
     /\ \A i \in 1..Len(results) : results[i].vectorScore = 0

\* A corpus without embeddings gave results, after an expansion into
\* several variants.
C6_Witness ==
  /\ chunks # <<>> /\ noStoredEmbedding
  /\ Len(queryVariations) > 1
  /\ outcome = "returned"
  /\ Len(results) > 0

\* C7 as stated: when no chunk has an embedding, of any two returned results
\* the one ranked earlier has bm25Score at least that of the later one.
C7_RankedByBm25Score ==
  (noStoredEmbedding /\ outcome = "returned") =>
     \A i, j \in 1..Len(results) : i < j => results[i].bm25Score >= results[j].bm25Score

\* C7, amended: when no chunk has an embedding, every returned result has
\* vectorScore 0 and combinedScore = min(bm25Score * (1 + 0.1 n), 1.0), n the
\* number of its metadata keywords in the lower-cased query; the ranking is
\* by that value, and among results with n = 0 it is by bm25Score.
C7_RankedByBoostedBm25Score ==
  (noStoredEmbedding /\ outcome = "returned") =>
     /\ \A i \in 1..Len(results) :
           /\ results[i].vectorScore = 0
           /\ results[i].combinedScore =
                Min2((results[i].bm25Score * (10 + keywordHits(results[i], req.query))) \div 10,
                     SCALE)
     /\ byCombinedScore(results)
     /\ \A i, j \in 1..Len(results) :
           (i < j /\ keywordHits(results[i], req.query) = 0
                  /\ keywordHits(results[j], req.query) = 0)
             => results[i].bm25Score >= results[j].bm25Score

\* A boosted result is ranked before one with a higher bm25Score.
C7_Witness ==
  /\ noStoredEmbedding /\ outcome = "returned"
  /\ \E i, j \in 1..Len(results) :
        /\ i < j
        /\ results[i].bm25Score < results[j].bm25Score
        /\ keywordHits(results[i], req.query) > 0

\* The events of one kind in the log of generateEmbedding.
eventsOf(kind) == SelectSeq(elog, LAMBDA ev : ev.e = kind)

\* The replies with one status.
repliesWith(status) == SelectSeq(elog, LAMBDA ev : ev.e = "reply" /\ ev.status = status)

\* What holds of every run of generateEmbedding: at most 3 provider calls; the
\* waits are 1000 ms, then 2000 ms, each straight after a 429 reply and before
\* the next call; a vector is returned on the first successful reply and is
\* that reply's; the third 429 raises, with no wait and no call after it.
retryBudgetKept ==
  /\ Len(eventsOf("call")) <= maxRetries
  /\ LET waits == eventsOf("wait")
     IN  /\ Len(waits) <= maxRetries - 1
         /\ \A n \in 1..Len(waits) : waits[n].ms = IF n = 1 THEN 1000 ELSE 2000
  /\ \A k \in 1..Len(elog) :
        /\ elog[k].e = "wait" =>
              /\ k > 1 /\ elog[k - 1].e = "reply" /\ elog[k - 1].status = RATE_LIMIT
              /\ k < Len(elog) => elog[k + 1].e = "call"
        /\ (elog[k].e = "reply" /\ elog[k].status = 200) =>
              /\ k = Len(elog)
              /\ ge[1].st = "returned"
              /\ ge[1].embedding = elog[k].embedding
        /\ (elog[k].e = "reply" /\ elog[k].status = RATE_LIMIT
              /\ Len(SelectSeq(SubSeq(elog, 1, k), LAMBDA ev : ev.e = "call")) < maxRetries) =>
              /\ k < Len(elog)
              /\ elog[k + 1].e = "wait"
  /\ Len(repliesWith(RATE_LIMIT)) = maxRetries =>
        /\ elog[Len(elog)].e = "reply"
        /\ ge[1].st = "raised"
        /\ ge[1].status = RATE_LIMIT
  /\ (ge # <<>> /\ ge[1].st = "returned") =>
        elog[Len(elog)].e = "reply" /\ elog[Len(elog)].status = 200

\* C8: one invocation of generateEmbedding makes at most 3 provider calls,
\* returns the vector of the first successful call, waits 1000 ms before the
\* second attempt and 2000 ms before the third after a 429, raises after a
\* third consecutive 429 without a further call, and always terminates.
C8_RetryBudget ==
  /\ [](pc = "generateEmbedding" => retryBudgetKept)
  /\ (pc = "generateEmbedding") ~> (ge # <<>> /\ ge[1].st \in {"returned", "raised"})

\* Three calls were answered with 429: two waits, then the error.
C8_Witness ==
  /\ pc = "generateEmbedding"
  /\ Len(eventsOf("call")) = maxRetries
  /\ Len(repliesWith(RATE_LIMIT)) = maxRetries
  /\ Len(eventsOf("wait")) = 2
  /\ ge[1].st = "raised"

\* C9: an embedding call that fails with a status other than 429 makes
\* generateEmbedding raise that error at once, on whichever attempt: no wait
\* and no provider call follows.
C9_OtherErrorsRaiseAtOnce ==
  \A k \in 1..Len(elog) :
     (elog[k].e = "reply" /\ elog[k].status \notin {200, RATE_LIMIT}) =>
        /\ k = Len(elog)
        /\ ge[1].st = "raised"
        /\ ge[1].status = elog[k].status

\* The third attempt, after two 429 replies, failed with another status.
C9_Witness ==
  /\ pc = "generateEmbedding"
  /\ Len(eventsOf("call")) = maxRetries
  /\ Len(repliesWith(RATE_LIMIT)) = maxRetries - 1
  /\ elog[Len(elog)].e = "reply"
  /\ elog[Len(elog)].status \notin {200, RATE_LIMIT}

\* C10 as stated: a text-generation call (enhanceQuery's, generateResponse's)
\* that failed with 429 is raised only after 3 attempts were made.
C10_TextGenerationRetried ==
  /\ (enh.st = "raised" /\ enh.status = RATE_LIMIT) => enh.calls = maxRetries
  /\ (gen.st = "raised" /\ gen.status = RATE_LIMIT) => gen.calls = maxRetries

\* C10, amended: a text-generation call is made once and never retried.  A
\* failure of enhanceQuery's call, 429 included, is raised at once and
\* hybridRetrieval goes on with the original query alone; a failure of
\* generateResponse's call is raised at once and the route answers 500.
C10_TextGenerationCalledOnce ==
  /\ enh.calls <= 1
  /\ gen.calls <= 1
  /\ enh.st = "raised" => (enh.calls = 1 /\ queryVariations = <<req.query>>)
  /\ gen.st = "raised" => (gen.calls = 1 /\ pc = "done" /\ http = 500)

\* Both calls of one chat request failed with 429, each after one attempt.
C10_Witness ==
  /\ enh.st = "raised" /\ enh.status = RATE_LIMIT /\ enh.calls = 1
  /\ gen.st = "raised" /\ gen.status = RATE_LIMIT /\ gen.calls = 1
  /\ http = 500

\* chunkDocument was called, on content that is not blank.
chunked == fcall.f = "chunkDocument"

\* The length of the longest piece the split of the content yields.
longestSentence(content) ==
  LET sentences == splitSentences(content)
  IN  CHOOSE n \in {Len(sentences[i]) : i \in 1..Len(sentences)} :
        \A i \in 1..Len(sentences) : Len(sentences[i]) <= n

\* C14: for a document whose content is not blank, the [startPosition,
\* endPosition) spans of the chunks cover the content without gaps: the first
\* starts at 0, each later one starts at or before the end of the one before,
\* and the last ends at or after the length of the content.
C14_SpansCoverContent ==
  (chunked /\ Len(trim(fcall.document.content)) > 0) =>
     /\ Len(fret) > 0
     /\ fret[1].metadata.startPosition = 0
     /\ \A i \in 2..Len(fret) :
           fret[i].metadata.startPosition <= fret[i - 1].metadata.endPosition
     /\ fret[Len(fret)].metadata.endPosition >= Len(fcall.document.content)

\* C15: every chunk's content is at most CHUNK_SIZE plus the length of the
\* document's longest sentence long.
C15_ChunkSizeBound ==
  chunked =>
     \A i \in 1..Len(fret) :
        Len(fret[i].content) <= CHUNK_SIZE + longestSentence(fcall.document.content)

\* A chunk longer than CHUNK_SIZE, and one closed inside the loop.
C15_Witness ==
  /\ chunked
  /\ Len(fret) > 1
  /\ \E i \in 1..Len(fret) : Len(fret[i].content) > CHUNK_SIZE

\* C20: the startPosition values of a document's chunks are strictly
\* increasing with chunkIndex, also when a chunk is closed while the buffer
\* holds CHUNK_OVERLAP characters or fewer.
C20_StartPositionsIncrease ==
  chunked =>
     \A i, j \in 1..Len(fret) :
        i < j => /\ fret[i].chunkIndex < fret[j].chunkIndex
                 /\ fret[i].metadata.startPosition < fret[j].metadata.startPosition

\* The chunk with the given id.
chunkById(chunkSeq, id) == chunkSeq[CHOOSE i \in 1..Len(chunkSeq) : chunkSeq[i].id = id]

\* The content contains one of the query's terms of more than 2 characters,
\* letter case aside.
containsQueryTerm(content, query) ==
  LET words == splitWhitespace(toLowerCase(query))
  IN  \E i \in 1..Len(words) :
         Len(words[i]) > 2 /\ includes(toLowerCase(content), words[i])

\* C16: every key of the map bm25Search returns is a chunk whose content
\* contains a query term (of more than 2 characters) as a case-insensitive
\* substring, and its value is positive.
C16_KeysContainQueryTerm ==
  (fcall.f = "bm25Search" /\ ~fret.threw) =>
     \A id \in DOMAIN fret.scores :
        /\ fret.scores[id] > 0
        /\ containsQueryTerm(chunkById(fcall.chunks, id).content, fcall.query)

\* Every component of x is 0: the norm of x is 0.
zeroNorm(x) == \A i \in 1..Len(x) : x[i] = 0

\* C17: cosineSimilarity(a, b) is 0 when the lengths differ, when either is
\* empty and when either has norm 0, and it is symmetric.
C17_CosineZeroAndSymmetric ==
  fcall.f = "cosineSimilarity" =>
     /\ (Len(fcall.a) # Len(fcall.b) \/ Len(fcall.a) = 0 \/ Len(fcall.b) = 0
           \/ zeroNorm(fcall.a) \/ zeroNorm(fcall.b)) => fret = 0
     /\ fret = cosineSimilarity(fcall.b, fcall.a)

\* Two different vectors that are neither parallel nor orthogonal.
C17_Witness ==
  /\ fcall.f = "cosineSimilarity"
  /\ fcall.a # fcall.b
  /\ Len(fcall.a) = MaxDim
  /\ fret # 0 /\ fret < SCALE /\ fret > -SCALE

\* C18: whenever enhanceQuery returns, its result starts with the original
\* query and holds at most 2 further elements, whatever the provider's reply.
C18_OriginalFirstAtMostTwoMore ==
  (fcall.f = "enhanceQuery" /\ ~fret.raised) =>
     /\ Len(fret.variants) >= 1
     /\ fret.variants[1] = fcall.query
     /\ Len(fret.variants) <= 3

\* The reply listed more than 2 variations and the first 2 were taken.
C18_Witness ==
  /\ fcall.f = "enhanceQuery"
  /\ fcall.reply.kind = "object"
  /\ fcall.reply.variations.t = "array"
  /\ Len(fcall.reply.variations.v) > 2
  /\ fret.variants = <<fcall.query, fcall.reply.variations.v[1], fcall.reply.variations.v[2]>>

\* The fusion was applied and returned results.
fused == fcall.f = "fuseAndRank" /\ ~fret.raised

\* Some stored embedding of the call has a negative similarity to some query
\* embedding.
negativeSimilarity ==
  \E i \in 1..Len(fcall.chunks), k \in 1..Len(fcall.embeddings) :
    /\ hasEmbedding(fcall.chunks[i])
    /\ cosineSimilarity(fcall.embeddings[k], fcall.chunks[i].embedding) < 0

\* C19: every result hybridRetrieval returns has a vectorScore and a bm25Score
\* between 0 and 1, also when a stored embedding has a negative similarity to
\* the query and when the largest score is under the floor 0.001.
C19_ScoresNormalised ==
  fused =>
    \A i \in 1..Len(fret.results) :
      /\ 0 <= fret.results[i].vectorScore /\ fret.results[i].vectorScore <= SCALE
      /\ 0 <= fret.results[i].bm25Score /\ fret.results[i].bm25Score <= SCALE

\* A result whose chunk has a negative similarity to the only query embedding:
\* its vectorScore is 0 and the vector scores were divided by the floor.
C19_Witness ==
  /\ fused
  /\ Len(fcall.embeddings) = 1
  /\ \A i \in 1..Len(fcall.chunks) :
       /\ hasEmbedding(fcall.chunks[i])
       /\ cosineSimilarity(fcall.embeddings[1], fcall.chunks[i].embedding) < 0
  /\ Len(fret.results) = 2
  /\ \A i \in 1..2 : fret.results[i].vectorScore = 0 /\ fret.results[i].bm25Score > 0

\* The elements of a sequence.
Range(seq) == {seq[i] : i \in 1..Len(seq)}

\* What deleteDocument(id) has to leave when it is applied to the storage of
\* the state before the step.
deleteDocumentFrame(id) ==
  /\ getChunksByDocumentId(chunks', id) = <<>>
  /\ getDocument(documents', id) = <<>>
  /\ Range(documents') = {d \in Range(documents) : d.id # id}
  /\ Range(chunks') = {c \in Range(chunks) : c.documentId # id}
  /\ conversations' = conversations
  /\ messages' = messages
  /\ getDocument(documents, id) = <<>> =>
       documents' = documents /\ chunks' = chunks

\* C11: a step of deleteDocument(id) removes the document id and the chunks
\* whose documentId is id and nothing else, and changes nothing when no
\* document id is stored.
C11_DeleteDocumentFrame ==
  [][\A id \in knownDocumentIds \cup {0} : DeleteDocument(id) => deleteDocumentFrame(id)]_vars

\* C12: every stored chunk's documentId names a stored document, in every
\* state the uploads, the startup processing and the deletions reach.
C12_NoOrphanChunk ==
  \A i \in 1..Len(chunks) : getDocument(documents, chunks[i].documentId) # <<>>

\* C13: no two stored chunks share documentId and chunkIndex.
C13_ChunkIndexUnique ==
  \A i \in 1..Len(chunks), j \in 1..Len(chunks) :
    (chunks[i].documentId = chunks[j].documentId
       /\ chunks[i].chunkIndex = chunks[j].chunkIndex) => i = j

\* The vector stage was applied.
merged == fcall.f = "vectorSearch"

\* The result list of the k-th variant (rag.ts 281).
resultList(k) == searchChunksByEmbedding(fcall.chunks, fcall.embeddings[k], fcall.topK * 2)

\* The similarities the chunk id received in the result lists.
similaritiesOf(id) ==
  UNION {{resultList(k)[j].vectorScore :
            j \in {n \in 1..Len(resultList(k)) : resultList(k)[n].id = id}} :
           k \in 1..Len(fcall.embeddings)}

\* The ids that are in some result list.
listedIds ==
  UNION {{resultList(k)[j].id : j \in 1..Len(resultList(k))} :
           k \in 1..Len(fcall.embeddings)}

greatest(S) == CHOOSE x \in S : \A y \in S : y <= x

\* The variants' embeddings in the other order.
reversed(seq) == [k \in 1..Len(seq) |-> seq[Len(seq) + 1 - k]]

orderIndependent ==
  vectorSearch(<<>>, reversed(fcall.embeddings), 1, fcall.chunks, fcall.topK) = fret

\* C21 as stated: the merged score of a chunk is the maximum of the
\* similarities it received, and the map does not depend on the order of the
\* variants.
C21_MergedIsMaximum ==
  merged =>
    /\ DOMAIN fret = listedIds
    /\ \A id \in listedIds : fret[id] = greatest(similaritiesOf(id))
    /\ orderIndependent

\* C21, amended: the merged score of a chunk is the maximum of 0 and the
\* similarities it received (never their sum), and the map does not depend
\* on the order of the variants.
C21_MergedIsMaximumOrZero ==
  merged =>
    /\ DOMAIN fret = listedIds
    /\ \A id \in listedIds : fret[id] = Max2(0, greatest(similaritiesOf(id)))
    /\ orderIndependent

\* Two variants gave one chunk two different similarities and the larger one
\* was kept; another chunk received negative similarities only and has 0.
C21_Witness ==
  /\ merged
  /\ Len(fcall.embeddings) = 2
  /\ \E id \in listedIds :
       /\ Cardinality(similaritiesOf(id)) = 2
       /\ fret[id] > 0
       /\ fret[id] = greatest(similaritiesOf(id))
  /\ \E id \in listedIds :
       /\ \A x \in similaritiesOf(id) : x < 0
       /\ fret[id] = 0

\* The fusion weights were applied.
combinedCall == fcall.f = "combine"

\* C22: the weights are 0.6 and 0.4 exactly when the merged vector score map
\* has an entry and 0 and 1.0 exactly when it has none; the combined score of
\* every chunk of the corpus is the weighted sum of its normalized scores, and
\* the candidates are the chunks whose combined score is greater than 0.
\* Weights are in tenths, combined scores in ten-thousandths.
C22_FusionWeights ==
  combinedCall =>
    LET some == DOMAIN fcall.vectorScores # {}
        vectorWeight == vectorWeightOf(fcall.vectorScores)
        bm25Weight == bm25WeightOf(fcall.vectorScores)
    IN  /\ (vectorWeight = 6 /\ bm25Weight = 4) <=> some
        /\ (vectorWeight = 0 /\ bm25Weight = 10) <=> ~some
        /\ \A i \in 1..Len(fret.scored) :
             /\ fret.scored[i].id = fcall.chunks[i].id
             /\ fret.scored[i].combined =
                  (IF some THEN 6 ELSE 0) * fret.scored[i].vectorScore
                  + (IF some THEN 4 ELSE 10) * fret.scored[i].bm25Score
        /\ {fret.candidates[j].id : j \in 1..Len(fret.candidates)}
             = {fret.scored[i].id : i \in {n \in 1..Len(fret.scored) :
                                             fret.scored[n].combined > 0}}

\* The map has an entry; one chunk has both scores positive and is a
\* candidate, another has the combined score 0 and is none.
C22_Witness ==
  /\ combinedCall
  /\ DOMAIN fcall.vectorScores # {}
  /\ \E i \in 1..Len(fret.scored) :
       /\ fret.scored[i].vectorScore > 0 /\ fret.scored[i].bm25Score > 0
       /\ \E j \in 1..Len(fret.candidates) : fret.candidates[j].id = fret.scored[i].id
  /\ \E i \in 1..Len(fret.scored) :
       /\ fret.scored[i].combined = 0
       /\ \A j \in 1..Len(fret.candidates) : fret.candidates[j].id # fret.scored[i].id

\* The place of the chunk id in the corpus list loaded at rag.ts 256.
placeInCorpus(id) == CHOOSE k \in 1..Len(allChunks) : allChunks[k].id = id

\* C23: results of equal combinedScore are in the order of their chunks in
\* the corpus list loaded at the start of the request.
C23_TiesKeepCorpusOrder ==
  outcome = "returned" =>
    \A i, j \in 1..Len(results) :
      (i < j /\ results[i].combinedScore = results[j].combinedScore)
        => placeInCorpus(results[i].id) < placeInCorpus(results[j].id)

\* Two results with the same combinedScore were returned, the first of them
\* with the smaller bm25Score.
C23_Witness ==
  /\ outcome = "returned"
  /\ \E i, j \in 1..Len(results) :
       /\ i < j
       /\ results[i].combinedScore = results[j].combinedScore
       /\ results[i].bm25Score < results[j].bm25Score

\* The text t occurs in the text s.
within(t, s) ==
  \E i \in 1..(Len(s) - Len(t) + 1) :
    /\ s[i] = t[1]
    /\ s[i + Len(t) - 1] = t[Len(t)]
    /\ SubSeq(s, i, i + Len(t) - 1) = t

\* The sentence units of the document that are not blank.
sentenceUnits ==
  LET sentences == splitSentences(fcall.document.content)
  IN  {trim(sentences[k]) : k \in {n \in 1..Len(sentences) : Len(trim(sentences[n])) > 0}}

\* C24: every sentence unit of the document is whole inside the content of
\* some chunk, a sentence longer than CHUNK_SIZE included.
C24_NoSentenceCut ==
  chunked =>
    \A sentence \in sentenceUnits :
      \E i \in 1..Len(fret) : within(sentence, fret[i].content)

\* A document with a sentence longer than CHUNK_SIZE that was made into
\* several chunks, one of them with that sentence.
C24_Witness ==
  /\ chunked
  /\ Len(fret) > 1
  /\ \E sentence \in sentenceUnits :
       /\ Len(sentence) > CHUNK_SIZE
       /\ \E i \in 1..Len(fret) : within(sentence, fret[i].content)

\* C25: on a corpus that is not empty hybridRetrieval never rejects, whatever
\* the query and whatever the providers answer.
C25_RetrievalNeverRejects ==
  Len(chunks) > 0 => outcome # "raised"

\* C26: no step of a retrieval request changes the stored documents or the
\* stored chunks, their embeddings included, on any path of hybridRetrieval.
C26_RetrievalReadsOnly ==
  [][chunks' = chunks /\ documents' = documents]_vars

\* hybridRetrieval returned after the vector searches ran on a corpus in
\* which a chunk has an embedding and another has none; the storage is the
\* snapshot taken at the start.
C26_Witness ==
  /\ outcome = "returned"
  /\ vectorStage = "merged"
  /\ hasEmbeddings(chunks)
  /\ \E i \in 1..Len(chunks) : ~hasEmbedding(chunks[i])
  /\ chunks = allChunks

\* C27: searchChunksByEmbedding returns only chunks with a stored embedding,
\* at most topK of them, in non-increasing vectorScore order, and no chunk it
\* leaves out is more similar to the query than one it returns.
C27_SearchTopK ==
  fcall.f = "searchChunksByEmbedding" =>
    LET returned == {fret[j].id : j \in 1..Len(fret)}
    IN  /\ \A j \in 1..Len(fret) : hasEmbedding(chunkById(fcall.chunks, fret[j].id))
        /\ Len(fret) <= fcall.topK
        /\ \A i, j \in 1..Len(fret) : i < j => fret[i].vectorScore >= fret[j].vectorScore
        /\ \A i \in 1..Len(fcall.chunks), j \in 1..Len(fret) :
             (hasEmbedding(fcall.chunks[i]) /\ fcall.chunks[i].id \notin returned)
               => cosineSimilarity(fcall.embedding, fcall.chunks[i].embedding)
                    <= fret[j].vectorScore

\* C28: no two activations are suspended in generateEmbedding for the same
\* chunk, whatever the interleaving of uploads with the startup processing.
C28_OneEmbeddingPerChunk ==
  \A i, j \in 1..Len(procs) : procs[i].chunkId = procs[j].chunkId => i = j

\* What a rejected generateEmbedding call of the activation i of
\* processDocument has to be followed by: no stored chunk is changed or
\* removed, the next chunk of the document, if there is one, is stored and
\* the activation waits for its embedding; else the processing is over and
\* ingestDocument is answered with the document.
failureAbsorbed(i) ==
  LET p == procs[i]
  IN  /\ SubSeq(chunks', 1, Len(chunks)) = chunks
      /\ IF p.k < Len(p.made)
         THEN /\ Len(chunks') = Len(chunks) + 1
              /\ chunks'[Len(chunks')].content = p.made[p.k + 1].content
              /\ chunks'[Len(chunks')].chunkIndex = p.made[p.k + 1].chunkIndex
              /\ chunks'[Len(chunks')].documentId = p.made[p.k + 1].documentId
              /\ chunks'[Len(chunks')].embedding = <<>>
              /\ Len(procs') = Len(procs)
              /\ procs'[i].kind = p.kind
              /\ procs'[i].chunkId = chunks'[Len(chunks')].id
              /\ http' = http
         ELSE IF p.kind = "ingestDocument"
              THEN http' = 200 /\ Len(procs') = Len(procs) - 1 /\ chunks' = chunks
              ELSE http' = http /\ startup' \in {"running", "done"}

\* C29: when the embedding of one chunk fails in processDocument, the chunk
\* stays stored as it is, the remaining chunks are still created and
\* embedded, and processDocument and ingestDocument end without raising.
C29_EmbeddingFailureAbsorbed ==
  [][\A i \in 1..Len(procs) :
       (procs[i].kind # "initializeEmbeddings" /\ EmbeddingSettled(i, "rejected"))
         => failureAbsorbed(i)]_vars

\* An upload of two chunks was answered with the document: the embedding of
\* the first chunk failed and it is stored without one, the second chunk was
\* created and has its embedding.
C29_Witness ==
  /\ http = 200
  /\ served.failures = 1
  /\ procs = <<>>
  /\ startup = "pending"
  /\ Len(chunks) = 2
  /\ chunks[1].embedding = <<>> /\ chunks[1].chunkIndex = 0
  /\ chunks[2].embedding = ChunkEmbedding /\ chunks[2].chunkIndex = 1
  /\ chunks[2].documentId = chunks[1].documentId

\* The chunk with this id is stored.
chunkStored(chunkSeq, id) == \E j \in 1..Len(chunkSeq) : chunkSeq[j].id = id

\* What the write of a resolved generateEmbedding call of the activation i
\* leaves behind: the documents are unchanged; a chunk that is no longer
\* stored is not stored afterwards and every stored chunk is as it was; a
\* stored chunk has the embedding and its other fields are as they were,
\* and so is every other chunk.
embeddingWritten(i) ==
  LET id == procs[i].chunkId
  IN  /\ documents' = documents
      /\ Len(chunks') >= Len(chunks)
      /\ IF chunkStored(chunks, id)
         THEN \A j \in 1..Len(chunks) :
                chunks'[j] = IF chunks[j].id = id
                             THEN [chunks[j] EXCEPT !.embedding = ChunkEmbedding]
                             ELSE chunks[j]
         ELSE /\ ~chunkStored(chunks', id)
              /\ SubSeq(chunks', 1, Len(chunks)) = chunks

\* C30: updateChunkEmbedding changes nothing for an id that is not stored,
\* so a write that completes after deleteDocument removed its chunk does not
\* create the chunk again; for a stored id it changes the embedding of that
\* chunk only, and no other chunk and no document.
C30_EmbeddingWriteGuarded ==
  [][\A i \in 1..Len(procs) :
       EmbeddingSettled(i, "resolved") => embeddingWritten(i)]_vars

\* An upload of two chunks whose document was deleted while the embedding of
\* its first chunk was being generated: the first chunk is gone although its
\* embedding was written afterwards, the second was created and embedded.
C30_Witness ==
  /\ served.uploads = 1 /\ served.deletes >= 1 /\ served.failures = 0
  /\ http = 200
  /\ procs = <<>>
  /\ startup = "pending"
  /\ Len(chunks) = 1
  /\ chunks[1].chunkIndex = 1
  /\ chunks[1].embedding = ChunkEmbedding
  /\ getDocument(documents, chunks[1].documentId) = <<>>

====
